---- MODULE Spec2Model ----
(***************************************************************************)
(* Stuart's template evaluation engine: the render of one file node       *)
(* (Node::process_html / Node::process_markdown) as a state machine.      *)
(* One step of the machine is one turn of the token loop that is active   *)
(* (the render's own loop, or the loop inside an if* / ifdefined / for    *)
(* function), or the prologue / epilogue of a phase.                      *)
(*                                                                         *)
(* Strings are TLA+ strings, byte buffers are strings built with \o.      *)
(* A dotted name is a string; Split gives its parts (str::split).          *)
(* A frame name "x:y:z" is kept as its parts <<"x","y","z">>.             *)
(* Option<T> is a sequence of length 0 (None) or 1 (Some).                *)
(***************************************************************************)
EXTENDS Integers, Sequences, FiniteSets, TLC

VARIABLES
    node,       \* the file being rendered: [kind, tokens, self]
    env,        \* Environment: [root, md] (each an Option of a token sequence)
    base,       \* Stuart::base, the processor's base stack frame
    input,      \* Stuart::input, the files of the input tree (name, parsed contents)
    phase,      \* "init" | "file" | "root" | "done"
    tokens,     \* TokenIter::tokens of the running phase
    index,      \* TokenIter::index
    stack,      \* Scope::stack
    sections,   \* Scope::sections
    calls,      \* the active execute() loops of if* / ifdefined / for, innermost last
    result,     \* "running" | "ok" | the ProcessError kind returned
    output,     \* ProcessOutput::new_contents (an Option)
    \* StuartContext::build, the run of a whole build around the renders:
    step,       \* the statement of StuartContext::build the run is at
    config,     \* Stuart::config: [strip_extensions, save_data_files]
    contentTree, \* Stuart::input, the tree read from the content directory (an Option)
    walk,       \* the active calls of Stuart::build_node, innermost last
    built,      \* Stuart::output (an Option)
    disk,       \* the output directory: a set of [path, is_dir, contents]
    other,      \* the tree read from static/ or temp/ that is about to be merged (an Option)
    saving,     \* the calls of Node::save_recur still to make: <<directory path, node>>
    failure,    \* the error StuartContext::build returned: <<kind, ...>>, <<>> when none
    \* parse_html, the tokenizer of one template text:
    html,       \* the text given to parse_html, a sequence of characters
    parser,     \* Parser: [chars, line, column, next_line, next_column]
    scan,       \* where parse_html is, and the locals of the extract_until it is in
    parsed,     \* what parse_html has pushed and returned: [tokens, error]
    \* ExcerptFunction::execute, one call of excerpt($var, N):
    string,     \* the value of the variable, a sequence of characters
    length,     \* ExcerptFunction::length, the N of the call
    unread,     \* `chars`, the iterator over string: the characters not read yet
    excerpt,    \* the text built so far, a sequence of characters
    tag,        \* whether the last character read was inside a tag
    total_chars, \* how many characters were read
    reached,    \* the statement execute is at: "idle" | "while" | "after" | "output"
    \* stuart dev, the watcher thread and the WebSocket handlers:
    streams,    \* State::streams, the Vec behind the mutex
    holder,     \* who holds the mutex: <<>> | <<"watcher">> | <<"handler", stream>>
    watcher,    \* build_watcher: [pc, events, i, to_remove, k]
    handlers,   \* websocket_handler of each connection: "closed" | "waiting" | "locked" | "pushed"
    taken,      \* the registry as the watcher found it when it locked it
    sends       \* the sends of the running broadcast: stream -> sequence of outcomes

renderVars ==
    <<node, env, base, input, phase, tokens, index, stack, sections, calls, result, output>>

siteVars == <<step, config, contentTree, walk, built, other, disk, saving, failure>>

parseVars == <<html, parser, scan, parsed>>

excerptVars == <<string, length, unread, excerpt, tag, total_chars, reached>>

serveVars == <<streams, holder, watcher, handlers, taken, sends>>

vars == <<renderVars, siteVars, parseVars, excerptVars, serveVars>>

(***************************************************************************)
(* Bounds of the model.                                                    *)
(***************************************************************************)
\* Longest enumerated file token sequence (sections family).
MaxTokens == 3
\* Longest source sequence of a for block.
MaxLen == 3
\* Largest skip / limit argument of a for block.
MaxSkip == 2
\* Integer operands of the comparison functions range over 1..MaxInt.
MaxInt == 3

None == <<>>
Some(x) == <<x>>

Last(s) == s[Len(s)]
Front(s) == SubSeq(s, 1, Len(s) - 1)

Min(S) == CHOOSE x \in S : \A y \in S : x <= y

(***************************************************************************)
(* JSON values (humphrey_json::Value), one record shape for every kind.   *)
(***************************************************************************)
JNull == [k |-> "null", s |-> "", n |-> 0, a |-> <<>>, o |-> <<>>]
JString(str) == [k |-> "string", s |-> str, n |-> 0, a |-> <<>>, o |-> <<>>]
JNumber(i) == [k |-> "number", s |-> "", n |-> i, a |-> <<>>, o |-> <<>>]
JArray(elems) == [k |-> "array", s |-> "", n |-> 0, a |-> elems, o |-> <<>>]
JObject(pairs) == [k |-> "object", s |-> "", n |-> 0, a |-> <<>>, o |-> pairs]

\* Value::get(&str): the first member of an object with that key.
ValueGetKey(json, key) ==
    IF json.k = "object" /\ \E i \in DOMAIN json.o : json.o[i][1] = key
    THEN Some(json.o[Min({i \in DOMAIN json.o : json.o[i][1] = key})][2])
    ELSE None

\* str::parse::<usize> on the index strings the model uses.
ParseUsize(str) ==
    CASE str = "0" -> Some(0)
      [] str = "1" -> Some(1)
      [] str = "2" -> Some(2)
      [] OTHER -> None

\* Value::get(usize): the element of an array at a 0-based index.
ValueGetIndex(json, i) ==
    IF json.k = "array" /\ i + 1 \in DOMAIN json.a THEN Some(json.a[i + 1]) ELSE None

\* process::stack::get_value: walk the dotted path through the value.
RECURSIVE get_value(_, _)
get_value(indexes, json) ==
    IF indexes = <<>> THEN json
    ELSE LET byKey == ValueGetKey(json, indexes[1])
             asIdx == ParseUsize(indexes[1])
             byIdx == IF asIdx = None THEN None ELSE ValueGetIndex(json, asIdx[1])
         IN  IF byKey # None THEN get_value(Tail(indexes), byKey[1])
             ELSE IF byIdx # None THEN get_value(Tail(indexes), byIdx[1])
             ELSE JNull

(***************************************************************************)
(* Stack frames.                                                           *)
(***************************************************************************)
\* StackFrame::new
NewFrame(name) == [name |-> name, variables |-> <<>>, output |-> ""]

\* StackFrame::add_variable
add_variable(frame, name, value) ==
    [frame EXCEPT !.variables = Append(@, <<name, value>>)]

\* StackFrame::get_variable: the first binding of the name in the frame.
FrameGetVariable(frame, name) ==
    LET hits == {i \in DOMAIN frame.variables : frame.variables[i][1] = name}
    IN  IF hits = {} THEN None ELSE Some(frame.variables[Min(hits)][2])

\* The frame index the top-down walk `stack.iter().rev()` stops at: the
\* first frame from the top that binds `name`, or 0 when none does.
RECURSIVE FrameFromTop(_, _, _)
FrameFromTop(stk, i, name) ==
    IF i = 0 THEN 0
    ELSE IF FrameGetVariable(stk[i], name) # None THEN i
    ELSE FrameFromTop(stk, i - 1, name)

\* A walk from the bottom of the stack instead (lookup order reversed).
RECURSIVE FrameFromBottom(_, _, _)
FrameFromBottom(stk, i, name) ==
    IF i > Len(stk) THEN 0
    ELSE IF FrameGetVariable(stk[i], name) # None THEN i
    ELSE FrameFromBottom(stk, i + 1, name)

LookupFrameLowest(stk, name) == FrameFromBottom(stk, 1, name)

LookupFrame(stk, name) == FrameFromTop(stk, Len(stk), name)

\* Scope::get_variable: the value of a dotted path, looked up down the stack.
ScopeGetVariable(stk, path) ==
    LET i == LookupFrame(stk, path[1])
    IN  IF i = 0 THEN None
        ELSE Some(get_value(Tail(path), FrameGetVariable(stk[i], path[1])[1]))

\* Scope::output / the Raw arm: append to the top frame's output.
AppendOutput(stk, bytes) ==
    [stk EXCEPT ![Len(stk)].output = @ \o bytes]

(***************************************************************************)
(* Tokens (parse::Token) and function handles, one record shape.          *)
(***************************************************************************)
\* functions::Input
InVariable(name) == [k |-> "variable", s |-> name, n |-> 0]
InString(str) == [k |-> "string", s |-> str, n |-> 0]
InInteger(i) == [k |-> "integer", s |-> ToString(i), n |-> i]

Tok0 ==
    [t |-> "", f |-> "", text |-> "", label |-> "", custom |-> FALSE,
     in1 |-> InString(""), in2 |-> InString(""), source |-> "", source_type |-> "",
     skip |-> None, limit |-> None, sort_variable |-> None, sort_order |-> "Asc"]

Raw(text) == [Tok0 EXCEPT !.t = "raw", !.text = text]
Variable(name) == [Tok0 EXCEPT !.t = "variable", !.text = name]
Fn(f) == [Tok0 EXCEPT !.t = "function", !.f = f]
\* begin("label") / begin(ident), end("label") / end(ident)
Begin(label) == [Fn("begin") EXCEPT !.label = label, !.custom = TRUE]
End(label) == [Fn("end") EXCEPT !.label = label, !.custom = TRUE]
EndIdent(label) == [Fn("end") EXCEPT !.label = label, !.custom = FALSE]
Insert(label) == [Fn("insert") EXCEPT !.label = label]
Else == Fn("else")
Import(var, file_name) == [Fn("import") EXCEPT !.text = var, !.source = file_name]
IfDefined(name) == [Fn("ifdefined") EXCEPT !.text = name]
If(f, a, b) == [Fn(f) EXCEPT !.in1 = a, !.in2 = b]
For(var, source, source_type, skip, limit, sortby, order) ==
    [Fn("for") EXCEPT !.text = var, !.source = source, !.source_type = source_type,
                      !.skip = skip, !.limit = limit, !.sort_variable = sortby,
                      !.sort_order = order]

\* str::split('.') on the dotted names the model uses.
Split(name) ==
    CASE name = "a.k" -> <<"a", "k">>
      [] name = "x.id" -> <<"x", "id">>
      [] name = "x.n" -> <<"x", "n">>
      [] name = "list.0" -> <<"list", "0">>
      [] name = "self.content" -> <<"self", "content">>
      [] OTHER -> <<name>>

\* The names of the comparison functions with the operator each is built with.
IfNames == {"ifeq", "ifne", "ifgt", "ifge", "iflt", "ifle"}

if_parsers(f) ==
    CASE f = "ifeq" -> "=="
      [] f = "ifne" -> "!="
      [] f = "ifgt" -> ">"
      [] f = "ifge" -> ">="
      [] f = "iflt" -> "<"
      [] f = "ifle" -> "<"

\* A test that also accepts the frame of a for block.
StartsWithIfOrFor(name) == name[1] \in IfNames \cup {"ifdefined", "for"}

\* str::starts_with("if") on the first part of a frame name.
StartsWithIf(name) == name[1] \in IfNames \cup {"ifdefined"}

\* `f64 as i32`: saturating (JSON numbers are modelled as integers).
AsI32(n) ==
    IF n > 2147483647 THEN 2147483647
    ELSE IF n < -2147483647 - 1 THEN -2147483647 - 1
    ELSE n

\* Input::evaluate_variable
evaluate_variable(inp, stk) ==
    IF inp.k = "variable"
    THEN LET v == ScopeGetVariable(stk, Split(inp.s))
         IN  IF v = None THEN None
             ELSE IF v[1].k = "string" THEN Some(InString(v[1].s))
             ELSE IF v[1].k = "number" THEN Some(InInteger(AsI32(v[1].n)))
             ELSE None
    ELSE Some(inp)

\* impl PartialEq for Input
InputEq(l, r) ==
    /\ l.k = r.k
    /\ IF l.k = "integer" THEN l.n = r.n ELSE l.s = r.s

\* An ordering that also orders two strings.
partial_cmpOrdersStrings(l, r) ==
    IF l.k = r.k /\ l.k # "variable"
    THEN Some(IF l.k = "integer" /\ l.n < r.n THEN "Less"
              ELSE IF l.n = r.n /\ l.s = r.s THEN "Equal" ELSE "Greater")
    ELSE None

\* impl PartialOrd for Input: "Less" | "Equal" | "Greater", or None.
partial_cmp(l, r) ==
    IF l.k = "integer" /\ r.k = "integer"
    THEN Some(IF l.n < r.n THEN "Less" ELSE IF l.n = r.n THEN "Equal" ELSE "Greater")
    ELSE None

\* `input_1 $cond input_2` with the operators PartialEq / PartialOrd derive.
Compare(op, l, r) ==
    CASE op = "==" -> InputEq(l, r)
      [] op = "!=" -> ~InputEq(l, r)
      [] op = ">" -> partial_cmp(l, r) = Some("Greater")
      [] op = ">=" -> partial_cmp(l, r) \in {Some("Greater"), Some("Equal")}
      [] op = "<" -> partial_cmp(l, r) = Some("Less")
      [] op = "<=" -> partial_cmp(l, r) \in {Some("Less"), Some("Equal")}

(***************************************************************************)
(* The element sequence of a for block.                                   *)
(***************************************************************************)
\* Ord for String on the sort keys the model uses (byte-wise order).
StrRank(str) ==
    CASE str = "" -> 0
      [] str = "a" -> 1
      [] str = "b" -> 2
      [] str = "c" -> 3

\* The closure given to sort_by_cached_key.
SortKey(indexes, v) ==
    LET x == get_value(indexes, v)
    IN  IF x.k = "string" THEN x.s ELSE ""

\* One insertion of a stable sort: x goes after every element whose key is not greater.
RECURSIVE InsertByKey(_, _, _)
InsertByKey(sorted, x, indexes) ==
    IF sorted = <<>> THEN <<x>>
    ELSE IF StrRank(SortKey(indexes, x)) < StrRank(SortKey(indexes, Head(sorted)))
    THEN <<x>> \o sorted
    ELSE <<Head(sorted)>> \o InsertByKey(Tail(sorted), x, indexes)

\* slice::sort_by_cached_key (a stable sort).
RECURSIVE SortFrom(_, _, _)
SortFrom(done, rest, indexes) ==
    IF rest = <<>> THEN done
    ELSE SortFrom(InsertByKey(done, Head(rest), indexes), Tail(rest), indexes)

sort_by_cached_key(variables, indexes) == SortFrom(<<>>, variables, indexes)

Reverse(s) == [i \in 1..Len(s) |-> s[Len(s) + 1 - i]]

\* Iterator::skip / Iterator::take
Skip(s, n) == SubSeq(s, n + 1, Len(s))
Take(s, n) == SubSeq(s, 1, IF n < Len(s) THEN n ELSE Len(s))

\* Node::get_at_path on the (flat) input tree: the first file with that name.
get_at_path(tree, path) ==
    IF \E i \in DOMAIN tree : tree[i].name = path
    THEN Some(tree[Min({i \in DOMAIN tree : tree[i].name = path})])
    ELSE None

\* ForFunction::execute, the source: [err, variables].  A JSON file of the
\* input tree or a variable of the scope (markdown directories are not modelled).
ForSource(tok, stk, tree) ==
    IF tok.source_type = "JSONFile"
    THEN LET file == get_at_path(tree, tok.source)
         IN  IF file = None \/ file[1].is_dir
             THEN [err |-> "NotFound", variables |-> <<>>]
             ELSE IF file[1].parsed # "Json" \/ file[1].json.k # "array"
             THEN [err |-> "NotJsonArray", variables |-> <<>>]
             ELSE [err |-> "", variables |-> file[1].json.a]
    ELSE LET v == ScopeGetVariable(stk, Split(tok.source))
         IN  IF v = None \/ v[1].k # "array"
             THEN [err |-> "NotJsonArray", variables |-> <<>>]
             ELSE [err |-> "", variables |-> v[1].a]

\* The sequence reversed before it is sorted.
ForOrderedReverseFirst(tok, variables) ==
    LET turned == IF tok.sort_order = "Desc" THEN Reverse(variables) ELSE variables
    IN  IF tok.sort_variable # None
        THEN sort_by_cached_key(turned, Tail(Split(tok.sort_variable[1])))
        ELSE turned

\* ForFunction::execute, sort / order / skip / limit: the sequence iterated.
ForOrdered(tok, variables) ==
    LET sorted == IF tok.sort_variable # None
                  THEN sort_by_cached_key(variables, Tail(Split(tok.sort_variable[1])))
                  ELSE variables
    IN  IF tok.sort_order = "Desc" THEN Reverse(sorted) ELSE sorted

ForElements(tok, variables) ==
    LET ordered == ForOrdered(tok, variables)
        skipped == IF tok.skip # None THEN Skip(ordered, tok.skip[1]) ELSE ordered
    IN  IF tok.limit # None THEN Take(skipped, tok.limit[1]) ELSE skipped

\* InsertFunction::execute: the section `find` returns for the label.
FindSection(secs, label) ==
    LET hits == {i \in DOMAIN secs : secs[i][1] = label}
    IN  IF hits = {} THEN None ELSE Some(secs[Min(hits)][2])

(***************************************************************************)
(* The token loops.                                                        *)
(***************************************************************************)
\* What a render reads and never writes: its inputs, and the build around it.
setup == <<node, env, base, input, siteVars, parseVars, excerptVars, serveVars>>

Running == result = "running" /\ phase \in {"file", "root"}

TopCall == Last(calls)

\* The condition of the loop that is active: `while scope.stack.len() > stack_height`
\* inside a function, none for the render's own `while let Some(token)`.
LoopOpen == IF calls = <<>> THEN TRUE ELSE Len(stack) > TopCall.stack_height

\* TokenIter::next returns a token.
Fetch == Running /\ LoopOpen /\ index < Len(tokens)

token == tokens[index + 1]

IsEnd(tok) == tok.t = "function" /\ tok.f = "end"

\* Whether the active loop hands the fetched token to LocatableToken::process.
Executes ==
    IF calls = <<>> THEN TRUE
    ELSE IF TopCall.kind = "for" THEN TRUE
    ELSE IF TopCall.condition THEN TRUE
    ELSE IsEnd(token) /\ Len(stack) = TopCall.stack_height + 1

Call(kind, condition, rest, waypoint, variable_name) ==
    [kind |-> kind, condition |-> condition, stack_height |-> Len(stack),
     rest |-> rest, waypoint |-> waypoint, variable_name |-> variable_name]

\* Node::process_html / process_markdown up to the first token loop.
StartRender ==
    /\ phase = "init"
    /\ IF env.root = None
       THEN /\ result' = "MissingHtmlRoot"
            /\ phase' = "done"
            /\ UNCHANGED <<tokens, index, stack, sections>>
       ELSE IF node.kind = "markdown" /\ env.md = None
       THEN /\ result' = "MissingMarkdownRoot"
            /\ phase' = "done"
            /\ UNCHANGED <<tokens, index, stack, sections>>
       ELSE /\ tokens' = IF node.kind = "markdown" THEN env.md[1] ELSE node.tokens
            /\ index' = 0
            /\ stack' = IF node.kind = "markdown"
                        THEN <<add_variable(base, "self", node.self)>>
                        ELSE <<base>>
            /\ sections' = <<>>
            /\ phase' = "file"
            /\ UNCHANGED result
    /\ UNCHANGED <<setup, calls, output>>

\* Token::Raw
ProcessRaw ==
    /\ Fetch /\ Executes /\ token.t = "raw"
    /\ index' = index + 1
    /\ stack' = AppendOutput(stack, token.text)
    /\ UNCHANGED <<setup, phase, tokens, sections, calls, result, output>>

\* Token::Variable: [err, s] for the dotted name on the stack.
ResolveVariable(stk, name) ==
    LET path == Split(name)
        i == LookupFrame(stk, path[1])
        value == get_value(Tail(path), FrameGetVariable(stk[i], path[1])[1])
    IN  IF i = 0 THEN [err |-> "UndefinedVariable", s |-> ""]
        ELSE IF value.k = "string" THEN [err |-> "", s |-> value.s]
        ELSE IF value.k = "null" THEN [err |-> "NullError", s |-> ""]
        ELSE [err |-> "InvalidDataType", s |-> ""]

ProcessVariable ==
    /\ Fetch /\ Executes /\ token.t = "variable"
    /\ index' = index + 1
    /\ LET r == ResolveVariable(stack, token.text)
       IN  IF r.err = ""
           THEN stack' = AppendOutput(stack, r.s) /\ UNCHANGED result
           ELSE result' = r.err /\ UNCHANGED stack
    /\ UNCHANGED <<setup, phase, tokens, sections, calls, output>>

\* BeginFunction::execute
ExecuteBegin ==
    /\ Fetch /\ Executes /\ token.t = "function" /\ token.f = "begin"
    /\ index' = index + 1
    /\ stack' = Append(stack, NewFrame(<<"begin", token.label>>))
    /\ UNCHANGED <<setup, phase, tokens, sections, calls, result, output>>

\* A test that accepts the frame of any block.
EndMatchesAnyBlock(tok, name) == Len(name) >= 2

\* EndFunction::execute, the test on the popped frame's name.
EndMatches(tok, name) ==
    IF tok.custom THEN name = <<"begin", tok.label>>
    ELSE Len(name) >= 2 /\ name[1] = tok.label

\* EndFunction::execute
ExecuteEnd ==
    /\ Fetch /\ Executes /\ IsEnd(token)
    /\ index' = index + 1
    /\ IF stack = <<>>
       THEN result' = "EndWithoutBegin" /\ UNCHANGED <<stack, sections>>
       ELSE LET frame == Last(stack)
                popped == Front(stack)
            IN  IF ~EndMatches(token, frame.name)
                THEN /\ result' = "EndWithoutBegin"
                     /\ stack' = popped
                     /\ UNCHANGED sections
                ELSE IF popped = <<>>
                THEN /\ result' = "StackError"
                     /\ stack' = popped
                     /\ UNCHANGED sections
                ELSE /\ stack' = AppendOutput(popped, frame.output)
                     /\ sections' = IF token.custom
                                    THEN Append(sections, <<token.label, frame.output>>)
                                    ELSE sections
                     /\ UNCHANGED result
    /\ UNCHANGED <<setup, phase, tokens, calls, output>>

\* InsertFunction::execute
ExecuteInsert ==
    /\ Fetch /\ Executes /\ token.t = "function" /\ token.f = "insert"
    /\ index' = index + 1
    /\ LET section == FindSection(sections, token.label)
       IN  IF stack = <<>>
           THEN result' = "StackError" /\ UNCHANGED stack
           ELSE IF section = None
           THEN result' = "UndefinedSection" /\ UNCHANGED stack
           ELSE stack' = AppendOutput(stack, section[1]) /\ UNCHANGED result
    /\ UNCHANGED <<setup, phase, tokens, sections, calls, output>>

\* The test of an import that looks for the variable in the base frame only.
BoundInFrameBelow(stk, name) == FrameGetVariable(stk[1], name) # None

\* ImportFunction::execute, `frame.get_variable(..).is_some()` on the top frame.
BoundInFrame(stk, name) == FrameGetVariable(Last(stk), name) # None

\* ImportFunction::execute
ExecuteImport ==
    /\ Fetch /\ Executes /\ token.t = "function" /\ token.f = "import"
    /\ index' = index + 1
    /\ LET file == get_at_path(input, token.source)
       IN  IF file = None \/ file[1].is_dir
           THEN result' = "NotFound" /\ UNCHANGED stack
           ELSE IF file[1].parsed # "Json"
           THEN result' = "InvalidDataType" /\ UNCHANGED stack
           ELSE IF stack = <<>>
           THEN result' = "StackError" /\ UNCHANGED stack
           ELSE IF BoundInFrame(stack, token.text)
           THEN result' = "VariableAlreadyExists" /\ UNCHANGED stack
           ELSE /\ stack' = [stack EXCEPT ![Len(stack)] =
                                 add_variable(@, token.text, file[1].json)]
                /\ UNCHANGED result
    /\ UNCHANGED <<setup, phase, tokens, sections, calls, output>>

\* ElseFunction::execute
ExecuteElse ==
    /\ Fetch /\ Executes /\ token.t = "function" /\ token.f = "else"
    /\ index' = index + 1
    /\ IF stack # <<>> /\ StartsWithIf(Last(stack).name)
       THEN UNCHANGED result
       ELSE result' = "ElseWithoutIf"
    /\ UNCHANGED <<setup, phase, tokens, stack, sections, calls, output>>

\* if_parsers!::Function::execute up to its token loop.
ExecuteIf ==
    /\ Fetch /\ Executes /\ token.t = "function" /\ token.f \in IfNames
    /\ index' = index + 1
    /\ LET input_1 == evaluate_variable(token.in1, stack)
           input_2 == evaluate_variable(token.in2, stack)
       IN  IF input_1 = None \/ input_2 = None
           THEN result' = "UndefinedVariable" /\ UNCHANGED <<stack, calls>>
           ELSE /\ stack' = Append(stack, NewFrame(<<token.f, token.in1.s, token.in2.s>>))
                /\ calls' = Append(calls,
                       Call("if", Compare(if_parsers(token.f), input_1[1], input_2[1]),
                            <<>>, 0, ""))
                /\ UNCHANGED result
    /\ UNCHANGED <<setup, phase, tokens, sections, output>>

\* A bound variable counts as defined whatever its value.
IsDefinedIgnoresNull(stk, name) == ScopeGetVariable(stk, Split(name)) # None

\* IfDefinedFunction::execute, `defined`: bound, and not to null.
IsDefined(stk, name) ==
    LET v == ScopeGetVariable(stk, Split(name))
    IN  v # None /\ v[1].k # "null"

\* IfDefinedFunction::execute up to its token loop.
ExecuteIfDefined ==
    /\ Fetch /\ Executes /\ token.t = "function" /\ token.f = "ifdefined"
    /\ index' = index + 1
    /\ stack' = Append(stack, NewFrame(<<"ifdefined", token.text>>))
    /\ calls' = Append(calls, Call("if", IsDefined(stack, token.text), <<>>, 0, ""))
    /\ UNCHANGED <<setup, phase, tokens, sections, result, output>>

\* ForFunction::execute up to its iteration loop.
ExecuteFor ==
    /\ Fetch /\ Executes /\ token.t = "function" /\ token.f = "for"
    /\ index' = index + 1
    /\ LET src == ForSource(token, stack, input)
       IN  IF src.err # ""
           THEN result' = src.err /\ UNCHANGED calls
           ELSE /\ calls' = Append(calls,
                       Call("for", TRUE, ForElements(token, src.variables),
                            index + 1, token.text))
                /\ UNCHANGED result
    /\ UNCHANGED <<setup, phase, tokens, stack, sections, output>>

\* Every loop rewinds to the waypoint of the outermost for block.
ForIterateToOutermost ==
    /\ Running /\ calls # <<>> /\ ~LoopOpen
    /\ TopCall.kind = "for" /\ TopCall.rest # <<>>
    /\ index' = calls[Min({i \in DOMAIN calls : calls[i].kind = "for"})].waypoint
    /\ stack' = Append(stack,
           add_variable(NewFrame(<<"for", TopCall.variable_name>>),
                        TopCall.variable_name, Head(TopCall.rest)))
    /\ calls' = [calls EXCEPT ![Len(calls)].rest = Tail(@),
                              ![Len(calls)].stack_height = Len(stack)]
    /\ UNCHANGED <<setup, phase, tokens, sections, result, output>>

\* ForFunction::execute: `for variable in variable_iter`, one more element.
ForIterate ==
    /\ Running /\ calls # <<>> /\ ~LoopOpen
    /\ TopCall.kind = "for" /\ TopCall.rest # <<>>
    /\ index' = TopCall.waypoint
    /\ stack' = Append(stack,
           add_variable(NewFrame(<<"for", TopCall.variable_name>>),
                        TopCall.variable_name, Head(TopCall.rest)))
    /\ calls' = [calls EXCEPT ![Len(calls)].rest = Tail(@),
                              ![Len(calls)].stack_height = Len(stack)]
    /\ UNCHANGED <<setup, phase, tokens, sections, result, output>>

\* A function's loop is over: execute returns Ok(()).
Return ==
    /\ Running /\ calls # <<>> /\ ~LoopOpen
    /\ ~(TopCall.kind = "for" /\ TopCall.rest # <<>>)
    /\ calls' = Front(calls)
    /\ UNCHANGED <<setup, phase, tokens, index, stack, sections, result, output>>

\* The if* / ifdefined loop skips a token of a block that is not taken.
Suppress ==
    /\ Fetch /\ ~Executes
    /\ index' = index + 1
    /\ UNCHANGED <<setup, phase, tokens, stack, sections, calls, result, output>>

\* A function's loop that finds no token left asks for the next one again.
UnexpectedEndOfFileSpins ==
    /\ Running /\ calls # <<>> /\ LoopOpen /\ index >= Len(tokens)
    /\ UNCHANGED vars

\* A function's loop finds no token left.
UnexpectedEndOfFile ==
    /\ Running /\ calls # <<>> /\ LoopOpen /\ index >= Len(tokens)
    /\ result' = "UnexpectedEndOfFile"
    /\ UNCHANGED <<setup, phase, tokens, index, stack, sections, calls, output>>

\* The layout phase started on the file phase's own base frame, output kept.
EndFilePhaseKeepsFrame ==
    /\ Running /\ phase = "file" /\ calls = <<>> /\ index >= Len(tokens)
    /\ IF stack # <<>> /\ Last(stack).name = <<"base">>
       THEN /\ tokens' = env.root[1]
            /\ index' = 0
            /\ phase' = "root"
            /\ UNCHANGED <<result, stack>>
       ELSE /\ result' = "StackError"
            /\ stack' = Front(stack)
            /\ UNCHANGED <<tokens, index, phase>>
    /\ UNCHANGED <<setup, sections, calls, output>>

\* The file's tokens are used up: the check of the stack, then the layout.
EndFilePhase ==
    /\ Running /\ phase = "file" /\ calls = <<>> /\ index >= Len(tokens)
    /\ IF stack # <<>> /\ Last(stack).name = <<"base">>
       THEN /\ stack' = Append(Front(stack), base)
            /\ tokens' = env.root[1]
            /\ index' = 0
            /\ phase' = "root"
            /\ UNCHANGED result
       ELSE /\ result' = "StackError"
            /\ stack' = Front(stack)
            /\ UNCHANGED <<tokens, index, phase>>
    /\ UNCHANGED <<setup, sections, calls, output>>

\* The layout's tokens are used up: the top frame's output is the result.
EndRootPhase ==
    /\ Running /\ phase = "root" /\ calls = <<>> /\ index >= Len(tokens)
    /\ stack # <<>>
    /\ output' = Some(Last(stack).output)
    /\ stack' = Front(stack)
    /\ result' = "ok"
    /\ phase' = "done"
    /\ UNCHANGED <<setup, tokens, index, sections, calls>>

(***************************************************************************)
(* The renders the model runs: a file node, its environment, the          *)
(* processor's base frame and input tree.                                  *)
(***************************************************************************)
\* Stuart::build: the base frame binds `env` to the environment variables.
BuildBase ==
    add_variable(NewFrame(<<"base">>), "env",
                 JObject(<< <<"STUART_ENV", JString("production")>> >>))

HtmlNode(toks) == [kind |-> "html", tokens |-> toks, self |-> JNull]
\* ParsedMarkdown::to_value: the frontmatter plus `content` and `markdown`.
MarkdownNode(content) ==
    [kind |-> "markdown", tokens |-> <<>>,
     self |-> JObject(<< <<"content", JString(content)>>, <<"markdown", JString("m")>> >>)]

JsonFile(name, json) == [name |-> name, is_dir |-> FALSE, parsed |-> "Json", json |-> json]
HtmlFile(name) == [name |-> name, is_dir |-> FALSE, parsed |-> "Html", json |-> JNull]

Setup(n, root, md, tree) ==
    [node |-> n, env |-> [root |-> root, md |-> md], base |-> BuildBase, input |-> tree]

SeqsUpTo(S, n) == UNION {[1..m -> S] : m \in 0..n}

\* root.html = <r>{{ insert("s") }}</r>
RootInsert == <<Raw("<r>"), Insert("s"), Raw("</r>")>>
\* root.html = {{ begin("x") }}<r>: a section the layout never closes
RootOpen == <<Begin("x"), Raw("<r>")>>
\* md.html = {{ begin("s") }}{{ $self.content }}{{ end("s") }}
MdLayout == <<Begin("s"), Variable("self.content"), End("s")>>

\* {{ begin("s") }}A{{ end("s") }}-{{ insert("s") }}
SectionThenInsert == <<Begin("s"), Raw("A"), End("s"), Raw("-"), Insert("s")>>
\* {{ begin("s") }}A{{ end("s") }}{{ begin("s") }}B{{ end("s") }}{{ begin("t") }}{{ insert("s") }}{{ end("t") }}
RecordedTwice ==
    <<Begin("s"), Raw("A"), End("s"), Begin("s"), Raw("B"), End("s"),
      Begin("t"), Insert("s"), End("t")>>
\* {{ ifdefined($env) }}A: a block the file never closes
OpenBlock == <<IfDefined("env"), Raw("A")>>

SectionAlphabet == {Raw("A"), Begin("s"), End("s"), Insert("s")}

SectionFiles ==
    SeqsUpTo(SectionAlphabet, MaxTokens) \cup {SectionThenInsert, RecordedTwice, OpenBlock}

SectionSetups ==
    {Setup(HtmlNode(f), Some(r), None, <<>>) : f \in SectionFiles, r \in {RootInsert, RootOpen}}
    \cup {Setup(MarkdownNode("M"), r, m, <<>>) :
            r \in {None, Some(RootInsert), Some(RootOpen)},
            m \in {None, Some(MdLayout), Some(<<Begin("s")>>)}}
    \cup {Setup(HtmlNode(<<Raw("A")>>), None, None, <<>>)}

\* The comparison functions: {{ begin("s") }}{{ import($a, "a.json") }}
\* {{ f(x, y) }}Y[{{ else() }}N]{{ end(f) }}{{ end("s") }}
IfFile(f, x, y, withElse) ==
    <<Begin("s"), Import("a", "a.json"), If(f, x, y), Raw("Y")>>
    \o (IF withElse THEN <<Else, Raw("N")>> ELSE <<>>)
    \o <<EndIdent(f), End("s")>>

Literals == {InInteger(i) : i \in 1..MaxInt} \cup {InString("x")}

AValues == {JNumber(i) : i \in 1..MaxInt} \cup {JString("x"), JString("y"), JNull}

\* <<first input, second input, the value of a.json>>
IfCases ==
    {<<InVariable("a"), y, v>> : y \in Literals, v \in AValues}
    \cup {<<InInteger(2), InVariable("a"), v>> : v \in AValues}
    \cup {<<x, y, JNull>> : x \in Literals, y \in Literals}

IfSetups ==
    {Setup(HtmlNode(IfFile(f, c[1], c[2], e)), Some(RootInsert), None,
           <<JsonFile("a.json", c[3])>>) :
        f \in IfNames, c \in IfCases, e \in BOOLEAN}

\* ifdefined: {{ begin("s") }}{{ import($a, "a.json") }}{{ ifdefined($v) }}X
\* {{ end(ifdefined) }}{{ end("s") }}
IfDefinedFile(v) ==
    <<Begin("s"), Import("a", "a.json"), IfDefined(v), Raw("X"),
      EndIdent("ifdefined"), End("s")>>

DefinedValues ==
    {JString("v"), JNull, JNumber(1), JArray(<<>>),
     JObject(<< <<"k", JString("v")>> >>), JObject(<< <<"k", JNull>> >>)}

IfDefinedSetups ==
    {Setup(HtmlNode(IfDefinedFile(v)), Some(RootInsert), None, <<JsonFile("a.json", j)>>) :
        v \in {"a", "a.k", "b"}, j \in DefinedValues}

\* Shadowing: {{ begin("s") }}{{ import($x, "a.json") }}{{ for($x, "data.json") }}
\* {{ ifdefined($v) }}D{{ end(ifdefined) }}{{ $v }}{{ end(for) }}{{ $v }}{{ end("s") }}
ShadowFile(v) ==
    <<Begin("s"), Import("x", "a.json"),
      For("x", "data.json", "JSONFile", None, None, None, "Asc"),
      IfDefined(v), Raw("D"), EndIdent("ifdefined"), Variable(v), EndIdent("for"),
      Variable(v), End("s")>>

OuterValues == {JString("out"), JObject(<< <<"id", JString("out")>> >>)}

InnerValues ==
    {JString("in"), JNull, JNumber(1), JObject(<< <<"id", JString("in")>> >>)}

ShadowSetups ==
    {Setup(HtmlNode(ShadowFile(v)), Some(RootInsert), None,
           <<JsonFile("a.json", o), JsonFile("data.json", JArray(l))>>) :
        v \in {"x", "x.id", "b"}, o \in OuterValues,
        l \in UNION {[1..m -> InnerValues] : m \in 1..2}}

\* for: {{ begin("s") }}{{ for($x, "data.json", ...) }}[{{ $x.id }}]{{ end(for) }}
\* {{ end("s") }}
ForFile(skip, limit, sortby, order) ==
    <<Begin("s"), For("x", "data.json", "JSONFile", skip, limit, sortby, order),
      Raw("["), Variable("x.id"), Raw("]"), EndIdent("for"), End("s")>>

\* the same block over a variable: {{ import($list, "data.json") }}{{ for($x, $list) }}
ForVariableFile ==
    <<Begin("s"), Import("list", "data.json"),
      For("x", "list", "JSONObject", None, None, None, "Asc"),
      Raw("["), Variable("x.id"), Raw("]"), EndIdent("for"), End("s")>>

\* The elements of the source sequences: a string key, a missing key, a number key.
Element(id, n) == JObject(<< <<"id", JString(id)>>, <<"n", n>> >>)

ElementPool ==
    {Element("p", JString("b")), Element("q", JString("a")),
     JObject(<< <<"id", JString("r")>> >>), Element("t", JNumber(1))}

Injective(f) == \A i, j \in DOMAIN f : f[i] = f[j] => i = j

SourceLists ==
    UNION {{l \in [1..m -> ElementPool] : Injective(l)} : m \in 0..MaxLen}

Counts == {None} \cup {Some(i) : i \in 0..MaxSkip}

ForSetups ==
    {Setup(HtmlNode(ForFile(sk, li, sb, ord)), Some(RootInsert), None,
           <<JsonFile("data.json", JArray(l))>>) :
        sk \in Counts, li \in Counts, sb \in {None, Some("x.n")},
        ord \in {"Asc", "Desc"}, l \in SourceLists}
    \cup {Setup(HtmlNode(ForVariableFile), Some(RootInsert), None,
                <<JsonFile("data.json", j)>>) :
            j \in {JArray(l) : l \in SourceLists} \cup {JNull}}

\* Blocks opened, closed and crossed: every file of up to MaxTokens tokens over
\* A, begin("s"), end("s"), end(for), end(ifeq), else(), import($a, "a.json"),
\* for($a, "data.json"), ifeq(1, 1).
BlockAlphabet ==
    {Raw("A"), Begin("s"), End("s"), EndIdent("for"), EndIdent("ifeq"), Else,
     Import("a", "a.json"), For("a", "data.json", "JSONFile", None, None, None, "Asc"),
     If("ifeq", InInteger(1), InInteger(1))}

\* {{ import($a, "a.json") }}{{ import($a, "missing.json") }}
ImportMissing == <<Import("a", "a.json"), Import("a", "missing.json")>>

BlockFiles == SeqsUpTo(BlockAlphabet, MaxTokens) \cup {ImportMissing}

BlockSetups ==
    {Setup(HtmlNode(f), Some(RootInsert), None,
           <<JsonFile("a.json", JString("v")),
             JsonFile("data.json", JArray(<<JString("e")>>))>>) : f \in BlockFiles}

\* No excerpt is being computed.
ExcerptIdle ==
    /\ string = <<>>
    /\ length = 0
    /\ unread = <<>>
    /\ excerpt = <<>>
    /\ tag = FALSE
    /\ total_chars = 0
    /\ reached = "idle"

\* No development server is running.
ServeIdle ==
    /\ streams = <<>>
    /\ holder = <<>>
    /\ watcher = [pc |-> "idle", events |-> 0, i |-> 0, to_remove |-> <<>>, k |-> 0]
    /\ handlers = <<>>
    /\ taken = <<>>
    /\ sends = <<>>

\* No text is being tokenized.
ParseIdle ==
    /\ html = <<>>
    /\ parser = [chars |-> <<>>, line |-> 1, column |-> 1, next_line |-> 1, next_column |-> 1]
    /\ scan = [pc |-> "done", result |-> <<>>, old_chars |-> <<>>, line |-> 1, column |-> 1]
    /\ parsed = [tokens |-> <<>>, error |-> None]

\* No build is running around the render.
SiteIdle ==
    /\ step = "idle"
    /\ config = [strip_extensions |-> FALSE, save_data_files |-> FALSE]
    /\ contentTree = None
    /\ walk = <<>>
    /\ built = None
    /\ disk = {}
    /\ other = None
    /\ saving = <<>>
    /\ failure = None

\* A block inside a block that may not be taken: {{ begin("s") }}A{{ outer }}X
\* [inner block]Y{{ end(outer) }}B{{ end("s") }}
SuppressedFile(outer, inner) ==
    <<Begin("s"), Raw("A"), outer, Raw("X")>> \o inner
    \o <<Raw("Y"), EndIdent(outer.f), Raw("B"), End("s")>>

OuterBlocks ==
    {If("ifeq", InInteger(1), InInteger(2)), If("ifeq", InInteger(1), InInteger(1)),
     IfDefined("b"), IfDefined("env")}

InnerBlocks ==
    {<<>>,
     <<If("ifne", InInteger(1), InInteger(2)), Raw("I"), EndIdent("ifne")>>,
     <<If("ifeq", InInteger(1), InInteger(1)), Raw("I"), EndIdent("ifeq")>>,
     <<IfDefined("env"), Raw("I"), EndIdent("ifdefined")>>,
     <<For("x", "data.json", "JSONFile", None, None, None, "Asc"), Raw("I"), EndIdent("for")>>,
     <<Begin("t"), Raw("I"), End("t")>>}

SuppressedSetups ==
    {Setup(HtmlNode(SuppressedFile(o, i)), Some(RootInsert), None,
           <<JsonFile("data.json", JArray(<<JString("e")>>))>>) :
        o \in OuterBlocks, i \in InnerBlocks}

\* A for block in a for block: {{ begin("s") }}{{ for($x, "data.json") }}(
\* {{ for($y, "more.json") }}{{ $x }}{{ $y }}{{ end(for) }}){{ end(for) }}.{{ end("s") }}
NestedForFile ==
    <<Begin("s"), For("x", "data.json", "JSONFile", None, None, None, "Asc"), Raw("("),
      For("y", "more.json", "JSONFile", None, None, None, "Asc"), Variable("x"), Variable("y"),
      EndIdent("for"), Raw(")"), EndIdent("for"), Raw("."), End("s")>>

\* The strings <prefix>1 .. <prefix>n.
Numbered(prefix, n) == [i \in 1..n |-> JString(prefix \o ToString(i))]

NestedForSetups ==
    {Setup(HtmlNode(NestedForFile), Some(RootInsert), None,
           <<JsonFile("data.json", JArray(Numbered("o", m))),
             JsonFile("more.json", JArray(Numbered("i", n)))>>) :
        m \in 1..MaxLen, n \in 1..MaxLen}

\* What the layout sees of the file phase: A{{ import($a, "a.json") }}
\* {{ begin("s") }}B{{ end("s") }}C, or a markdown file through md.html, under a
\* layout that inserts the section and then reads a variable of the file phase.
PhaseFile == <<Raw("A"), Import("a", "a.json"), Begin("s"), Raw("B"), End("s"), Raw("C")>>

PhaseRoots(name) ==
    {<<Raw("<r>"), Insert("s"), Raw("</r>")>>,
     <<Raw("<r>"), Insert("s"), Variable(name)>>,
     <<Raw("<r>"), Insert("s"), IfDefined(name), Raw("D"), EndIdent("ifdefined")>>,
     <<Raw("<r>"), Insert("s"), IfDefined("env"), Raw("D"), EndIdent("ifdefined")>>}

PhaseSetups ==
    {Setup(HtmlNode(PhaseFile), Some(r), None, <<JsonFile("a.json", JString("v"))>>) :
        r \in PhaseRoots("a")}
    \cup {Setup(MarkdownNode("M"), Some(r), Some(MdLayout), <<>>) : r \in PhaseRoots("self")}

Setups ==
    SectionSetups \cup IfSetups \cup IfDefinedSetups \cup ShadowSetups \cup ForSetups
    \cup BlockSetups \cup SuppressedSetups \cup NestedForSetups \cup PhaseSetups

Init ==
    /\ \E su \in Setups :
        /\ node = su.node
        /\ env = su.env
        /\ base = su.base
        /\ input = su.input
    /\ phase = "init"
    /\ tokens = <<>>
    /\ index = 0
    /\ stack = <<>>
    /\ sections = <<>>
    /\ calls = <<>>
    /\ result = "running"
    /\ output = None
    /\ SiteIdle
    /\ ParseIdle
    /\ ExcerptIdle
    /\ ServeIdle

Next ==
    \/ StartRender
    \/ ProcessRaw
    \/ ProcessVariable
    \/ ExecuteBegin
    \/ ExecuteEnd
    \/ ExecuteInsert
    \/ ExecuteImport
    \/ ExecuteElse
    \/ ExecuteIf
    \/ ExecuteIfDefined
    \/ ExecuteFor
    \/ ForIterate
    \/ Return
    \/ Suppress
    \/ UnexpectedEndOfFile
    \/ EndFilePhase
    \/ EndRootPhase

Spec == Init /\ [][Next]_vars

(***************************************************************************)
(* The build of a site: StuartContext::build around Stuart::build.         *)
(* A path is a string of names joined with "/"; a file's bytes are named   *)
(* by the path they were read from.                                        *)
(***************************************************************************)
\* Deepest nesting of directories below the content directory.
MaxDepth == 2

\* Path::join
Join(dir, name) == IF dir = "" THEN name ELSE dir \o "/" \o name

\* <<stem, extension>> of the file names the model uses (Path::extension,
\* str::strip_suffix, str::ends_with).
NameParts(name) ==
    CASE name \in {"root.html", "md.html"} ->
            <<IF name = "root.html" THEN "root" ELSE "md", "html">>
      [] name = "index.html" -> <<"index", "html">>
      [] name = "p.html" -> <<"p", "html">>
      [] name = "a.html" -> <<"a", "html">>
      [] name = "s.html" -> <<"s", "html">>
      [] name = "m.html" -> <<"m", "html">>
      [] name = "a.md" -> <<"a", "md">>
      [] name = "m.md" -> <<"m", "md">>
      [] name = "d.json" -> <<"d", "json">>
      [] name = "style.css" -> <<"style", "css">>
      [] OTHER -> <<name, "">>

Stem(name) == NameParts(name)[1]
Extension(name) == NameParts(name)[2]

\* Node::create_from_file: the parsed contents by extension, Ignored when
\* the tree is read without parsing.
ParsedOf(name, parse) ==
    IF ~parse THEN "Ignored"
    ELSE CASE Extension(name) = "html" -> "Html"
           [] Extension(name) = "md" -> "Markdown"
           [] Extension(name) = "json" -> "Json"
           [] OTHER -> "None"

\* Node::File and Node::Directory, one record shape.
FileNode(dir, name, parse, toks) ==
    [name |-> name, is_dir |-> FALSE, children |-> <<>>, parsed |-> ParsedOf(name, parse),
     tokens |-> toks, contents |-> Join(dir, name), source |-> Join(dir, name)]

\* Node::parsed_contents of a directory is ParsedContents::None.
DirectoryNode(dir, name, children) ==
    [name |-> name, is_dir |-> TRUE, children |-> children, parsed |-> "None",
     tokens |-> <<>>, contents |-> "", source |-> Join(dir, name)]

\* What a directory holds under the names root.html and md.html: nothing,
\* two layout files, or two directories of those names.
LayoutKinds == {"none", "files", "dirs"}

\* What the content directory holds besides: a.md next to a.html, a sibling
\* directory with a layout of its own, index.html and a data file, a
\* directory p with an index.html next to p.html.
Kits == {"plain", "clash", "side", "data", "own"}

Page == <<Begin("s"), Raw("A"), End("s")>>

LayoutChildren(dir, kind, level) ==
    CASE kind = "files" ->
            <<FileNode(dir, "root.html", TRUE, <<Raw("<root" \o ToString(level) \o ">")>>),
              FileNode(dir, "md.html", TRUE, <<Raw("<md" \o ToString(level) \o ">")>>)>>
      [] kind = "dirs" ->
            <<DirectoryNode(dir, "root.html", <<>>), DirectoryNode(dir, "md.html", <<>>)>>
      [] OTHER -> <<>>

KitChildren(dir, kit) ==
    CASE kit = "clash" ->
            <<FileNode(dir, "a.md", TRUE, <<>>), FileNode(dir, "a.html", TRUE, Page)>>
      [] kit = "side" ->
            <<DirectoryNode(dir, "side",
                <<FileNode(Join(dir, "side"), "s.html", TRUE, Page),
                  FileNode(Join(dir, "side"), "root.html", TRUE, <<Raw("<side>")>>)>>)>>
      [] kit = "data" ->
            <<FileNode(dir, "index.html", TRUE, Page), FileNode(dir, "d.json", TRUE, <<>>)>>
      [] kit = "own" ->
            <<DirectoryNode(dir, "p",
                <<FileNode(Join(dir, "p"), "index.html", TRUE, Page)>>)>>
      [] OTHER -> <<>>

\* A directory with its pages, and below it a chain of directories `sub`,
\* one for each further entry of `layouts`.
RECURSIVE Chain(_, _, _, _, _)
Chain(dir, name, layouts, kit, level) ==
    LET here == Join(dir, name)
    IN  DirectoryNode(dir, name,
            <<FileNode(here, "p.html", TRUE, Page), FileNode(here, "m.md", TRUE, <<>>)>>
            \o KitChildren(here, kit)
            \o LayoutChildren(here, Head(layouts), level)
            \o (IF Len(layouts) > 1
                THEN <<Chain(here, "sub", Tail(layouts), "plain", level + 1)>>
                ELSE <<>>))

ContentTrees ==
    {Chain("", "content", l, k, 0) :
        l \in UNION {[1..m -> LayoutKinds] : m \in 1..(MaxDepth + 1)}, k \in Kits}

\* Environment { md: None, root: None }
EmptyEnvironment == [root |-> None, md |-> None]

\* Environment::update_from_children
RECURSIVE update_from_children(_, _)
update_from_children(e, children) ==
    IF children = <<>> THEN e
    ELSE LET child == Head(children)
             layout == IF child.parsed = "Html" THEN Some(child.tokens) ELSE None
             updated == CASE child.name = "root.html" -> [e EXCEPT !.root = layout]
                          [] child.name = "md.html" -> [e EXCEPT !.md = layout]
                          [] OTHER -> e
         IN  update_from_children(updated, Tail(children))

\* Node::process_html on a page of the model (its tokens raise no error):
\* the bytes name the layout that wrapped the page.
RenderHtml(n, e) ==
    IF e.root = None THEN [err |-> "MissingHtmlRoot", name |-> n.name, contents |-> ""]
    ELSE [err |-> "", name |-> n.name, contents |-> e.root[1][1].text \o n.source]

\* Node::process_markdown: the same through md.html, renamed to <stem>.html.
RenderMarkdown(n, e) ==
    IF e.root = None THEN [err |-> "MissingHtmlRoot", name |-> n.name, contents |-> ""]
    ELSE IF e.md = None
    THEN [err |-> "MissingMarkdownRoot", name |-> n.name, contents |-> ""]
    ELSE [err |-> "", name |-> Stem(n.name) \o ".html",
          contents |-> e.root[1][1].text \o e.md[1][1].text \o n.source]

\* Node::process: [err, node]
ProcessNode(n, e) ==
    LET keep == [err |-> "", name |-> n.name, contents |-> n.contents]
        out == IF n.name \in {"root.html", "md.html"} THEN keep
               ELSE IF n.parsed = "Html" THEN RenderHtml(n, e)
               ELSE IF n.parsed = "Markdown" THEN RenderMarkdown(n, e)
               ELSE keep
    IN  [err |-> out.err,
         node |-> [n EXCEPT !.name = out.name, !.contents = out.contents,
                            !.parsed = "None", !.tokens = <<>>]]

\* A call of Stuart::build_node on a directory: its environment, the child
\* it is at, the output nodes collected so far.
Activation(dir, e) ==
    [dir |-> dir, env |-> update_from_children(e, dir.children), at |-> 1, done |-> <<>>]

\* Scripts::execute_pre_build
ExecutePreBuild ==
    /\ step = "pre_build"
    /\ \E ok \in BOOLEAN :
        IF ok THEN step' = "build" /\ UNCHANGED failure
        ELSE step' = "failed" /\ failure' = <<"ScriptFailure">>
    /\ UNCHANGED <<renderVars, parseVars, excerptVars, serveVars, config, contentTree, walk, built, other, disk, saving>>

\* Stuart::build up to the call of build_node: the content directory is read.
StuartBuild ==
    /\ step = "build"
    /\ \E t \in ContentTrees \cup {None} :
        IF t = None
        THEN /\ step' = "failed"
             /\ failure' = <<"NotFound">>
             /\ UNCHANGED <<contentTree, walk>>
        ELSE /\ contentTree' = Some(t)
             /\ walk' = <<Activation(t, update_from_children(EmptyEnvironment, t.children))>>
             /\ step' = "walk"
             /\ UNCHANGED failure
    /\ UNCHANGED <<renderVars, parseVars, excerptVars, serveVars, config, built, other, disk, saving>>

Building == step = "walk" /\ walk # <<>>

Current == Last(walk)

Child == Current.dir.children[Current.at]

\* build_node meets a directory: the environment is narrowed and passed down.
BuildDirectory ==
    /\ Building /\ Current.at <= Len(Current.dir.children) /\ Child.is_dir
    /\ walk' = Append(walk, Activation(Child, Current.env))
    /\ UNCHANGED <<renderVars, parseVars, excerptVars, serveVars, step, config, contentTree, built, other, disk, saving, failure>>

\* The error of a leaf is put aside and the walk goes on with the next child.
BuildFileGoesOn ==
    /\ Building /\ Current.at <= Len(Current.dir.children) /\ ~Child.is_dir
    /\ LET r == ProcessNode(Child, Current.env)
       IN  /\ walk' = [walk EXCEPT ![Len(walk)].done = Append(@, r.node),
                                   ![Len(walk)].at = @ + 1]
           /\ failure' = IF r.err # "" THEN <<r.err, Child.source>> ELSE failure
           /\ UNCHANGED step
    /\ UNCHANGED <<renderVars, parseVars, excerptVars, serveVars, config, contentTree, built, other, disk, saving>>

\* build_node meets a file: Node::process in the directory's environment.
\* An error carries the path of the file (TracebackError::path).
BuildFile ==
    /\ Building /\ Current.at <= Len(Current.dir.children) /\ ~Child.is_dir
    /\ LET r == ProcessNode(Child, Current.env)
       IN  IF r.err # ""
           THEN /\ step' = "failed"
                /\ failure' = <<r.err, Child.source>>
                /\ walk' = <<>>
           ELSE /\ walk' = [walk EXCEPT ![Len(walk)].done = Append(@, r.node),
                                        ![Len(walk)].at = @ + 1]
                /\ UNCHANGED <<step, failure>>
    /\ UNCHANGED <<renderVars, parseVars, excerptVars, serveVars, config, contentTree, built, other, disk, saving>>

\* build_node has built every child of a directory: the output directory.
BuildReturn ==
    /\ Building /\ Current.at > Len(Current.dir.children)
    /\ LET made == [Current.dir EXCEPT !.children = Current.done]
       IN  IF Len(walk) > 1
           THEN /\ walk' = [Front(walk) EXCEPT ![Len(walk) - 1].done = Append(@, made),
                                               ![Len(walk) - 1].at = @ + 1]
                /\ UNCHANGED <<step, built>>
           ELSE /\ walk' = <<>>
                /\ built' = Some(made)
                /\ step' = "merge_static"
    /\ UNCHANGED <<renderVars, parseVars, excerptVars, serveVars, config, contentTree, other, disk, saving, failure>>

\* Node::merge: [err, node, a, b], the sources of a conflict in a and b.
RECURSIVE mergeReplaces(_, _)
\* A file of the same name is replaced by the other tree's child.
mergeReplaces(self, with) ==
    IF with.children = <<>> THEN [err |-> "", node |-> self, a |-> "", b |-> ""]
    ELSE LET other_child == Head(with.children)
             rest == [with EXCEPT !.children = Tail(@)]
             hits == {i \in DOMAIN self.children : self.children[i].name = other_child.name}
         IN  IF hits = {}
             THEN mergeReplaces([self EXCEPT !.children = Append(@, other_child)], rest)
             ELSE LET i == Min(hits)
                      child == self.children[i]
                  IN  IF child.is_dir /\ other_child.is_dir
                      THEN LET r == mergeReplaces(child, other_child)
                           IN  IF r.err # "" THEN [r EXCEPT !.node = self]
                               ELSE mergeReplaces([self EXCEPT !.children[i] = r.node], rest)
                      ELSE IF child.is_dir \/ other_child.is_dir
                      THEN [err |-> "Conflict", node |-> self,
                            a |-> child.source, b |-> other_child.source]
                      ELSE mergeReplaces([self EXCEPT !.children[i] = other_child], rest)

RECURSIVE merge(_, _)
\* Node::merge: [err, node, a, b]
merge(self, with) ==
    IF with.children = <<>> THEN [err |-> "", node |-> self, a |-> "", b |-> ""]
    ELSE LET other_child == Head(with.children)
             rest == [with EXCEPT !.children = Tail(@)]
             hits == {i \in DOMAIN self.children : self.children[i].name = other_child.name}
         IN  IF hits = {}
             THEN merge([self EXCEPT !.children = Append(@, other_child)], rest)
             ELSE LET i == Min(hits)
                      child == self.children[i]
                  IN  IF child.is_dir /\ other_child.is_dir
                      THEN LET r == merge(child, other_child)
                           IN  IF r.err # "" THEN [r EXCEPT !.node = self]
                               ELSE merge([self EXCEPT !.children[i] = r.node], rest)
                      ELSE [err |-> "Conflict", node |-> self,
                            a |-> child.source, b |-> other_child.source]

\* The trees the static directory may hold, read without parsing.
StaticTrees ==
    {DirectoryNode("", "static", c) : c \in {
        <<FileNode("static", "style.css", FALSE, <<>>), FileNode("static", "s.html", FALSE, <<>>)>>,
        <<FileNode("static", "index.html", FALSE, <<>>)>>,
        <<DirectoryNode("static", "sub", <<FileNode("static/sub", "style.css", FALSE, <<>>)>>)>>,
        <<FileNode("static", "style.css", FALSE, <<>>),
          DirectoryNode("static", "sub", <<FileNode("static/sub", "p.html", FALSE, <<>>)>>)>>,
        <<FileNode("static", "sub", FALSE, <<>>)>>,
        <<DirectoryNode("static", "p.html", <<>>)>>,
        <<FileNode("static", "p", FALSE, <<>>)>>}}

\* The trees the temp directory may hold.
TempTrees ==
    {DirectoryNode("", "temp", <<FileNode("temp", "t.txt", FALSE, <<>>)>>),
     DirectoryNode("", "temp", <<FileNode("temp", "style.css", FALSE, <<>>)>>)}

Merging == step \in {"merge_static", "merge_temp"}

\* `for dir in ["static", "temp"]`: the directory is read when it exists.
ReadDirectory ==
    /\ Merging /\ other = None
    /\ \E t \in (IF step = "merge_static" THEN StaticTrees ELSE TempTrees) \cup {None} :
        IF t = None
        THEN /\ step' = IF step = "merge_static" THEN "merge_temp" ELSE "save"
             /\ UNCHANGED other
        ELSE /\ other' = Some(t)
             /\ UNCHANGED step
    /\ UNCHANGED <<renderVars, parseVars, excerptVars, serveVars, config, contentTree, walk, built, disk, saving, failure>>

\* The tree is saved although the merge returned an error.
MergeOutputGoesOn ==
    /\ Merging /\ other # None
    /\ LET r == merge(built[1], other[1])
       IN  /\ step' = IF step = "merge_static" THEN "merge_temp" ELSE "save"
           /\ built' = Some(r.node)
           /\ failure' = IF r.err # "" THEN <<r.err, r.a, r.b>> ELSE failure
    /\ other' = None
    /\ UNCHANGED <<renderVars, parseVars, excerptVars, serveVars, config, contentTree, walk, disk, saving>>

\* Stuart::merge_output
MergeOutput ==
    /\ Merging /\ other # None
    /\ LET r == merge(built[1], other[1])
       IN  IF r.err # ""
           THEN /\ step' = "failed"
                /\ failure' = <<r.err, r.a, r.b>>
                /\ UNCHANGED built
           ELSE /\ step' = IF step = "merge_static" THEN "merge_temp" ELSE "save"
                /\ built' = Some(r.node)
                /\ UNCHANGED failure
    /\ other' = None
    /\ UNCHANGED <<renderVars, parseVars, excerptVars, serveVars, config, contentTree, walk, disk, saving>>

\* The calls of save_recur for the children of a directory saved at `dir`.
Calls(dir, children) == [i \in DOMAIN children |-> <<dir, children[i]>>]

\* Node::save: the output directory is emptied and its children are saved.
SaveStart ==
    /\ step = "save"
    /\ disk' = {}
    /\ saving' = Calls("", built[1].children)
    /\ step' = "saving"
    /\ UNCHANGED <<renderVars, parseVars, excerptVars, serveVars, config, contentTree, walk, built, other, failure>>

IsFileAt(d, path) == \E e \in d : e.path = path /\ ~e.is_dir
IsDirectoryAt(d, path) == path = "" \/ \E e \in d : e.path = path /\ e.is_dir

\* create_dir, AlreadyExists ignored.
CreateDir(d, path) ==
    IF \E e \in d : e.path = path THEN d
    ELSE d \cup {[path |-> path, is_dir |-> TRUE, contents |-> ""]}

\* std::fs::write: the file is created or replaced.
Write(d, path, contents) ==
    {e \in d : e.path # path} \cup {[path |-> path, is_dir |-> FALSE, contents |-> contents]}

\* std::fs::write succeeds: the parent is a directory, the path is not one.
CanWrite(d, parent, path) == IsDirectoryAt(d, parent) /\ ~IsDirectoryAt(d, path)

\* Every .html file but index.html gets a directory of its own.
StripsAll(n) == config.strip_extensions /\ Extension(n.name) = "html" /\ n.name # "index.html"

\* Node::save_recur, the test for a file saved as <stem>/index.html.
Strips(n) ==
    /\ config.strip_extensions
    /\ Extension(n.name) = "html"
    /\ n.name # "index.html"
    /\ n.parsed # "Ignored"

\* Node::save_recur, the test for a file that is written at all.
Saved(n) ==
    /\ n.name # "root.html"
    /\ n.name # "md.html"
    /\ (config.save_data_files \/ Extension(n.name) # "json")

\* Node::save_recur on the next node.
SaveNode ==
    /\ step = "saving" /\ saving # <<>>
    /\ LET dir == Head(saving)[1]
           n == Head(saving)[2]
           path == Join(dir, n.name)
           own == Join(dir, Stem(n.name))
       IN  IF n.is_dir
           THEN /\ disk' = CreateDir(disk, path)
                /\ saving' = Calls(path, n.children) \o Tail(saving)
                /\ UNCHANGED <<step, failure>>
           ELSE IF ~Saved(n)
           THEN /\ saving' = Tail(saving)
                /\ UNCHANGED <<disk, step, failure>>
           ELSE IF Strips(n)
           THEN IF CanWrite(CreateDir(disk, own), own, Join(own, "index.html"))
                THEN /\ disk' = Write(CreateDir(disk, own), Join(own, "index.html"), n.contents)
                     /\ saving' = Tail(saving)
                     /\ UNCHANGED <<step, failure>>
                ELSE /\ disk' = CreateDir(disk, own)
                     /\ step' = "failed"
                     /\ failure' = <<"Write">>
                     /\ UNCHANGED saving
           ELSE IF CanWrite(disk, dir, path)
                THEN /\ disk' = Write(disk, path, n.contents)
                     /\ saving' = Tail(saving)
                     /\ UNCHANGED <<step, failure>>
                ELSE /\ step' = "failed"
                     /\ failure' = <<"Write">>
                     /\ UNCHANGED <<disk, saving>>
    /\ UNCHANGED <<renderVars, parseVars, excerptVars, serveVars, config, contentTree, walk, built, other>>

\* Node::save returns Ok(()).
SaveReturn ==
    /\ step = "saving" /\ saving = <<>>
    /\ step' = "post_build"
    /\ UNCHANGED <<renderVars, parseVars, excerptVars, serveVars, config, contentTree, walk, built, other, disk, saving, failure>>

\* Scripts::execute_post_build
ExecutePostBuild ==
    /\ step = "post_build"
    /\ \E ok \in BOOLEAN :
        IF ok THEN step' = "done" /\ UNCHANGED failure
        ELSE step' = "failed" /\ failure' = <<"ScriptFailure">>
    /\ UNCHANGED <<renderVars, parseVars, excerptVars, serveVars, config, contentTree, walk, built, other, disk, saving>>

\* The render engine is at rest while the site is built.
RenderIdle ==
    /\ node = HtmlNode(<<>>)
    /\ env = EmptyEnvironment
    /\ base = BuildBase
    /\ input = <<>>
    /\ phase = "init"
    /\ tokens = <<>>
    /\ index = 0
    /\ stack = <<>>
    /\ sections = <<>>
    /\ calls = <<>>
    /\ result = "running"
    /\ output = None

\* What the output directory holds from an earlier build.
Stale == [path |-> "old.html", is_dir |-> FALSE, contents |-> "old"]

SiteInit ==
    /\ RenderIdle
    /\ ParseIdle
    /\ ExcerptIdle
    /\ ServeIdle
    /\ step = "pre_build"
    /\ config \in [strip_extensions : BOOLEAN, save_data_files : BOOLEAN]
    /\ contentTree = None
    /\ walk = <<>>
    /\ built = None
    /\ other = None
    /\ disk \in {{}, {Stale}}
    /\ saving = <<>>
    /\ failure = None

SiteNext ==
    \/ ExecutePreBuild
    \/ StuartBuild
    \/ BuildDirectory
    \/ BuildFile
    \/ BuildReturn
    \/ ReadDirectory
    \/ MergeOutput
    \/ SaveStart
    \/ SaveNode
    \/ SaveReturn
    \/ ExecutePostBuild

SiteSpec == SiteInit /\ [][SiteNext]_vars

(***************************************************************************)
(* The tokenizer: parse_html over the low-level Parser.  A text is a       *)
(* sequence of one-character strings; one step is one turn of the loop of  *)
(* extract_until, or one tag, or the final extract_remaining.              *)
(***************************************************************************)

MaxPieces == 3

\* Parser::new
ParserNew(chars) ==
    [chars |-> chars, line |-> 1, column |-> 1, next_line |-> 1, next_column |-> 1]

\* Parser::next: [ok, c, p]
next(p) ==
    IF p.chars = <<>>
    THEN [ok |-> FALSE, c |-> "", p |-> p]
    ELSE LET c == Head(p.chars) IN
         [ok |-> TRUE,
          c |-> c,
          p |-> [chars |-> Tail(p.chars),
                 line |-> p.next_line,
                 column |-> p.next_column,
                 next_line |-> IF c = "\n" THEN p.next_line + 1 ELSE p.next_line,
                 next_column |-> IF c = "\n" THEN 0
                                 ELSE IF c # "\r" THEN p.next_column + 1
                                 ELSE p.next_column]]

\* Parser::peek
peek(p) == IF p.chars = <<>> THEN None ELSE Some(Head(p.chars))

\* Parser::location
location(p) == <<p.line, p.column>>

\* char::is_whitespace and char::is_alphanumeric over the characters of the texts.
Whitespace == {" ", "\n", "\r"}
Alphanumeric == {"a"}

RECURSIVE extract_while(_, _)
\* Parser::extract_while, f the set of characters the predicate accepts: [text, p]
extract_while(p, f) ==
    IF p.chars # <<>> /\ Head(p.chars) \in f
    THEN LET r == extract_while(next(p).p, f) IN
         [text |-> <<Head(p.chars)>> \o r.text, p |-> r.p]
    ELSE [text |-> <<>>, p |-> p]

\* Parser::ignore_while
ignore_while(p, f) == extract_while(p, f).p

RECURSIVE expect(_, _)
\* Parser::expect: [err, p], err the ParseError kind or None
expect(p, s) ==
    IF s = <<>> THEN [err |-> None, p |-> p]
    ELSE LET n == next(p) IN
         IF ~n.ok THEN [err |-> Some("UnexpectedEOF"), p |-> p]
         ELSE IF n.c # Head(s) THEN [err |-> Some("Expected"), p |-> n.p]
         ELSE expect(n.p, Tail(s))

\* str::ends_with
EndsWith(text, s) ==
    /\ Len(text) >= Len(s)
    /\ SubSeq(text, Len(text) - Len(s) + 1, Len(text)) = s

\* String::remove(i), i counted from 0
Remove(text, i) == SubSeq(text, 1, i) \o SubSeq(text, i + 2, Len(text))

\* The test of extract_until for an escaped terminator.
Escaped(text, s, allow_escape) ==
    /\ allow_escape
    /\ Len(text) > Len(s)
    /\ text[Len(text) - Len(s)] = "\\"

RECURSIVE Replace(_)
\* str::replace("\\{{", "{{")
Replace(text) ==
    IF text = <<>> THEN <<>>
    ELSE IF Len(text) >= 3 /\ SubSeq(text, 1, 3) = <<"\\", "{", "{">>
    THEN <<"{", "{">> \o Replace(SubSeq(text, 4, Len(text)))
    ELSE <<Head(text)>> \o Replace(Tail(text))

RECURSIVE Drain(_)
\* The loop of extract_remaining: next() until it fails.
Drain(p) == IF next(p).ok THEN Drain(next(p).p) ELSE p

\* extract_remaining without the replacement of the escapes.
extract_remainingKeepsEscapes(p, allow_escape) ==
    [text |-> p.chars, p |-> Drain(p)]

\* Parser::extract_remaining: [text, p]
extract_remaining(p, allow_escape) ==
    [text |-> IF allow_escape THEN Replace(p.chars) ELSE p.chars, p |-> Drain(p)]

\* The allow_escape that parse_html passes to extract_until and extract_remaining.
allow_escape == TRUE

RECURSIVE Str(_)
\* The String of a sequence of characters.
Str(text) == IF text = <<>> THEN "" ELSE Head(text) \o Str(Tail(text))

\* LocatableToken
Locatable(inner, at) == [inner |-> inner, line |-> at[1], column |-> at[2]]

\* parse_variable: [err, name, p]
parse_variable(p) ==
    LET e == expect(p, <<"$">>)
        name == extract_while(e.p, Alphanumeric \cup {"_", "."})
    IN  IF e.err # None THEN [err |-> e.err, name |-> <<>>, p |-> e.p]
        ELSE IF name.text = <<>>
        THEN [err |-> Some("InvalidVariableName"), name |-> <<>>, p |-> name.p]
        ELSE [err |-> None, name |-> name.text, p |-> name.p]

\* parse_function up to its expect("("): the texts hold no "(".  [err, p]
parse_function(p) ==
    LET name == extract_while(p, Alphanumeric \cup {"_"})
        e == expect(ignore_while(name.p, Whitespace), <<"(">>)
    IN  IF name.text = <<>> THEN [err |-> Some("InvalidFunctionName"), p |-> name.p]
        ELSE [err |-> e.err, p |-> e.p]

\* The call parser.extract_until("{{") begins: parse_html is at the head of its loop.
EnterExtractUntil(p, at) ==
    [pc |-> "extract_until", result |-> <<>>, old_chars |-> p.chars,
     line |-> at[1], column |-> at[2]]

\* extract_until, one turn of its loop with a character left.
ExtractUntilNext ==
    /\ scan.pc = "extract_until"
    /\ next(parser).ok
    /\ LET n == next(parser)
           pushed == Append(scan.result, n.c)
           s == <<"{", "{">>
       IN  /\ parser' = n.p
           /\ IF ~EndsWith(pushed, s) THEN scan' = [scan EXCEPT !.result = pushed]
              ELSE IF Escaped(pushed, s, allow_escape)
              THEN scan' = [scan EXCEPT !.result = Remove(pushed, Len(pushed) - Len(s) - 1)]
              ELSE scan' = [scan EXCEPT !.pc = "tag",
                                        !.result = SubSeq(pushed, 1, Len(pushed) - Len(s))]
    /\ UNCHANGED <<html, parsed, renderVars, siteVars, excerptVars, serveVars>>

\* extract_until at the end of the input: None, and parse_html leaves its loop.
ExtractUntilEnd ==
    /\ scan.pc = "extract_until"
    /\ ~next(parser).ok
    /\ parser' = [parser EXCEPT !.chars = scan.old_chars]
    /\ scan' = [scan EXCEPT !.pc = "extract_remaining", !.result = <<>>]
    /\ UNCHANGED <<html, parsed, renderVars, siteVars, excerptVars, serveVars>>

\* The tokens of parse_html after the raw text before a tag is pushed.
WithRaw == 
    IF scan.result # <<>>
    THEN Append(parsed.tokens, Locatable(Raw(Str(scan.result)), <<scan.line, scan.column>>))
    ELSE parsed.tokens

\* The body of the loop of parse_html when the tag is a variable.
ParseVariable ==
    /\ scan.pc = "tag"
    /\ LET p0 == ignore_while(parser, Whitespace)
           v == parse_variable(p0)
           e == expect(ignore_while(v.p, Whitespace), <<"}", "}">>)
       IN  /\ peek(p0) = Some("$")
           /\ IF v.err # None
              THEN /\ parser' = v.p
                   /\ parsed' = [tokens |-> WithRaw, error |-> v.err]
                   /\ scan' = [scan EXCEPT !.pc = "done", !.result = <<>>]
              ELSE IF e.err # None
              THEN /\ parser' = e.p
                   /\ parsed' = [tokens |-> Append(WithRaw, Locatable(Variable(Str(v.name)), location(p0))),
                                 error |-> e.err]
                   /\ scan' = [scan EXCEPT !.pc = "done", !.result = <<>>]
              ELSE /\ parser' = e.p
                   /\ parsed' = [parsed EXCEPT
                                   !.tokens = Append(WithRaw, Locatable(Variable(Str(v.name)), location(p0)))]
                   /\ scan' = EnterExtractUntil(e.p, location(e.p))
    /\ UNCHANGED <<html, renderVars, siteVars, excerptVars, serveVars>>

\* The body of the loop of parse_html when the tag is a function.
ParseFunction ==
    /\ scan.pc = "tag"
    /\ LET p0 == ignore_while(parser, Whitespace)
           f == parse_function(p0)
       IN  /\ peek(p0) \notin {None, Some("$")}
           /\ f.err # None
           /\ parser' = f.p
           /\ parsed' = [tokens |-> WithRaw, error |-> f.err]
           /\ scan' = [scan EXCEPT !.pc = "done", !.result = <<>>]
    /\ UNCHANGED <<html, renderVars, siteVars, excerptVars, serveVars>>

\* The body of the loop of parse_html when the text ends inside the tag.
ParseTagAtEnd ==
    /\ scan.pc = "tag"
    /\ LET p0 == ignore_while(parser, Whitespace)
       IN  /\ peek(p0) = None
           /\ parser' = p0
           /\ parsed' = [tokens |-> WithRaw, error |-> Some("UnexpectedEOF")]
           /\ scan' = [scan EXCEPT !.pc = "done", !.result = <<>>]
    /\ UNCHANGED <<html, renderVars, siteVars, excerptVars, serveVars>>

\* The end of parse_html: what remains is one Raw.
ExtractRemaining ==
    /\ scan.pc = "extract_remaining"
    /\ LET r == extract_remaining(parser, allow_escape)
       IN  /\ parser' = r.p
           /\ parsed' = [parsed EXCEPT !.tokens =
                            IF r.text # <<>>
                            THEN Append(@, Locatable(Raw(Str(r.text)), <<scan.line, scan.column>>))
                            ELSE @]
           /\ scan' = [scan EXCEPT !.pc = "done"]
    /\ UNCHANGED <<html, renderVars, siteVars, excerptVars, serveVars>>

\* The texts: up to MaxPieces pieces, one after the other.
Pieces ==
    {<<"a">>, <<"\\">>, <<"{">>, <<"}">>, <<"\n">>, <<"\\", "{", "{">>, <<"{", "{">>,
     <<"{", "{", "$", "a", "}", "}">>, <<"{", "{", "\n", "$", "a">>}

RECURSIVE Texts(_)
Texts(n) ==
    IF n = 0 THEN {<<>>}
    ELSE Texts(n - 1) \cup {t \o piece : t \in Texts(n - 1), piece \in Pieces}

ParseInit ==
    /\ RenderIdle
    /\ SiteIdle
    /\ ExcerptIdle
    /\ ServeIdle
    /\ html \in Texts(MaxPieces)
    /\ parser = ParserNew(html)
    /\ scan = EnterExtractUntil(ParserNew(html), location(ParserNew(html)))
    /\ parsed = [tokens |-> <<>>, error |-> None]

ParseNext ==
    \/ ExtractUntilNext
    \/ ExtractUntilEnd
    \/ ParseVariable
    \/ ParseFunction
    \/ ParseTagAtEnd
    \/ ExtractRemaining

ParseSpec == ParseInit /\ [][ParseNext]_vars

(***************************************************************************)
(* Properties.                                                             *)
(***************************************************************************)
\* The render has returned, with success or with an error.
Finished == result # "running"

\* A phase's token loop has run out of tokens.
PhaseEnds == Running /\ calls = <<>> /\ index >= Len(tokens)

OnlyBase == Len(stack) = 1 /\ stack[1].name = <<"base">>

\* C1: a render returns success only if each of its two phases ends with the
\* base frame alone on the stack; a phase that ends with any other stack makes
\* the render fail with StackError.
C1_EachPhaseEndsOnBase ==
    [][PhaseEnds =>
          IF OnlyBase THEN result' \in {"running", "ok"} ELSE result' = "StackError"]_vars

\* The render of {{ begin("s") }}A{{ end("s") }}-{{ insert("s") }} under
\* root.html = <r>{{ insert("s") }}</r>.
IsSectionThenInsert ==
    /\ node = HtmlNode(SectionThenInsert)
    /\ env.root = Some(RootInsert)

\* C3 as stated: that render produces <r>A-A</r>.
C3_OutputHoldsInlineBytes ==
    (IsSectionThenInsert /\ Finished) => (result = "ok" /\ output = Some("<r>A-A</r>"))

\* C3 (amended): the section is emitted inline at its end("s") (the file phase's
\* base frame ends holding A-A), stored once as ("s", A), and inserted by the
\* layout; the layout runs on a fresh base frame, so the render produces <r>A</r>.
C3_SectionStoredAndInserted ==
    IsSectionThenInsert =>
        /\ (phase = "file" /\ index = 3 => stack[1].output = "A" /\ sections = << <<"s", "A">> >>)
        /\ (phase = "file" /\ index = 5 => stack[1].output = "A-A")
        /\ (phase = "root" => sections = << <<"s", "A">> >>)
        /\ (Finished => result = "ok" /\ output = Some("<r>A</r>"))

C3_Witness == IsSectionThenInsert /\ Finished /\ result = "ok"

\* The section recorded last under a label.
LastSection(secs, label) ==
    LET hits == {i \in DOMAIN secs : secs[i][1] = label}
    IN  IF hits = {} THEN None ELSE Some(secs[CHOOSE i \in hits : \A j \in hits : j <= i][2])

\* The loop processes an insert token.
InsertRuns == Fetch /\ Executes /\ token.t = "function" /\ token.f = "insert"

\* C4: insert(label) appends to the top frame's output exactly the bytes of the
\* last section recorded under the label, and fails with UndefinedSection,
\* appending nothing, when there is none.
C4_InsertsLastRecorded ==
    [][InsertRuns =>
          LET last == LastSection(sections, token.label)
          IN  IF last = None
              THEN result' = "UndefinedSection" /\ stack' = stack
              ELSE result' = result /\ stack' = AppendOutput(stack, last[1])]_vars

(***************************************************************************)
(* Comparison blocks.                                                      *)
(***************************************************************************)
\* The render is one of the comparison files; its function token is the third.
IsIfRender ==
    /\ node.kind = "html" /\ Len(node.tokens) >= 6
    /\ node.tokens[3].t = "function" /\ node.tokens[3].f \in IfNames

IfToken == node.tokens[3]

HasElse == node.tokens[5] = Else

\* What an input denotes: a literal, or the JSON value a.json binds to $a.
\* <<"integer", i>>, <<"string", s>>, or <<"none">> (null: not a comparable value).
Denotes(inp) ==
    IF inp.k = "integer" THEN <<"integer", inp.n>>
    ELSE IF inp.k = "string" THEN <<"string", inp.s>>
    ELSE IF input[1].json.k = "number" THEN <<"integer", input[1].json.n>>
    ELSE IF input[1].json.k = "string" THEN <<"string", input[1].json.s>>
    ELSE <<"none">>

Left == Denotes(IfToken.in1)
Right == Denotes(IfToken.in2)

BothIntegers == Left[1] = "integer" /\ Right[1] = "integer"

\* The relation each comparison function is named after, on integers.
Relation(f, a, b) ==
    CASE f = "ifeq" -> a = b
      [] f = "ifne" -> a # b
      [] f = "ifgt" -> a > b
      [] f = "ifge" -> a >= b
      [] f = "iflt" -> a < b
      [] f = "ifle" -> a <= b

\* C2: with an else() at the block's own depth, ifeq(a, b) Y else() N end(ifeq)
\* emits exactly Y when a = b and exactly N otherwise.
C2_ElseFlipsTheBlock ==
    (IsIfRender /\ HasElse /\ IfToken.f = "ifeq" /\ BothIntegers /\ Finished) =>
        /\ result = "ok"
        /\ output = Some(IF Left[2] = Right[2] THEN "<r>Y</r>" ELSE "<r>N</r>")

\* C7: on integer operands each comparison function takes its block exactly
\* when its relation holds (the block without else emits Y, or nothing).
C7_BlockTakenIffRelation ==
    (IsIfRender /\ ~HasElse /\ BothIntegers /\ Finished) =>
        /\ result = "ok"
        /\ output = Some(IF Relation(IfToken.f, Left[2], Right[2])
                         THEN "<r>Y</r>" ELSE "<r></r>")

\* The two operands are a string and an integer.
MixedKinds == {Left[1], Right[1]} = {"string", "integer"}
BothStrings == Left[1] = "string" /\ Right[1] = "string"
Ordering == {"ifgt", "ifge", "iflt", "ifle"}

\* C8 as stated: a string against an integer (any of the six functions), or two
\* strings under an ordering function, make the condition false: the body is
\* suppressed and no error is raised.
C8_NotComparableIsFalse ==
    (/\ IsIfRender /\ ~HasElse /\ Finished
     /\ (MixedKinds \/ (BothStrings /\ IfToken.f \in Ordering))) =>
        (result = "ok" /\ output = Some("<r></r>"))

\* C8 (amended): a string against an integer makes the condition false for
\* ifeq, ifgt, ifge, iflt and ifle and true for ifne (whose block is taken);
\* two strings make it false for the four ordering functions.  No error is
\* raised, and a suppressed body emits nothing (Y never appears).
C8_NotComparableExceptIfne ==
    (/\ IsIfRender /\ Finished
     /\ (MixedKinds \/ (BothStrings /\ IfToken.f \in Ordering))) =>
        /\ result = "ok"
        /\ IF MixedKinds /\ IfToken.f = "ifne"
           THEN output \in {Some("<r>Y</r>"), Some("<r>YN</r>")}
           ELSE output \in {Some("<r></r>"), Some("<r>N</r>")}

C8_Witness ==
    /\ IsIfRender /\ Finished /\ result = "ok"
    /\ MixedKinds /\ IfToken.f = "ifge" /\ IfToken.in1.k = "variable"

(***************************************************************************)
(* for blocks.                                                             *)
(***************************************************************************)
\* The render is one of the for files over data.json; the for token is the second.
IsForRender ==
    /\ node.kind = "html" /\ Len(node.tokens) = 7
    /\ node.tokens[2].t = "function" /\ node.tokens[2].f = "for"

ForToken == node.tokens[2]

ForSourceList == input[1].json.a

SkipCount == IF ForToken.skip = None THEN 0 ELSE ForToken.skip[1]

\* max(0, min(limit, len - skip)), an absent limit being unbounded.
IterationCount ==
    LET rest == IF Len(ForSourceList) > SkipCount THEN Len(ForSourceList) - SkipCount ELSE 0
    IN  IF ForToken.limit # None /\ ForToken.limit[1] < rest THEN ForToken.limit[1] ELSE rest

\* The loop is about to process the first token of the for body.
BodyRuns == Fetch /\ Executes /\ phase = "file" /\ index = 2

\* The top frame is a for:x frame that binds x to an element and holds no output yet.
OnFreshForFrame ==
    LET top == Last(stack)
    IN  /\ top.name = <<"for", "x">>
        /\ top.output = ""
        /\ Len(top.variables) = 1
        /\ top.variables[1][1] = "x"
        /\ \E i \in DOMAIN ForSourceList : top.variables[1][2] = ForSourceList[i]

\* C5: the body of a for block is executed exactly max(0, min(limit, len - skip))
\* times, each time inside a fresh frame for:x that binds x to one element
\* (every execution of the body [<id>] adds three bytes to the output).
C5_BodyRunsCountTimes ==
    [][IsForRender =>
          /\ (BodyRuns => OnFreshForFrame)
          /\ (result' = "ok" => Len(output'[1]) = Len("<r></r>") + 3 * IterationCount)]_vars

\* The string a sortby key denotes: the member n when it is a string, else "".
KeyOf(v) ==
    IF \E i \in DOMAIN v.o : v.o[i][1] = "n" /\ v.o[i][2].k = "string"
    THEN v.o[CHOOSE i \in DOMAIN v.o : v.o[i][1] = "n"][2].s
    ELSE ""

\* Element j comes before element k in the stable order by key.
Before(src, j, k) ==
    \/ StrRank(KeyOf(src[j])) < StrRank(KeyOf(src[k]))
    \/ (KeyOf(src[j]) = KeyOf(src[k]) /\ j < k)

\* The stable sort by key, by the place each element takes.
StablySorted(src) ==
    [p \in 1..Len(src) |->
        src[CHOOSE k \in 1..Len(src) :
                Cardinality({j \in 1..Len(src) : Before(src, j, k)}) = p - 1]]

\* take(limit, drop(skip, ord(sort(source))))
ExpectedElements ==
    LET src == ForSourceList
        sorted == IF ForToken.sort_variable # None THEN StablySorted(src) ELSE src
        ordered == [i \in 1..Len(src) |->
                       IF ForToken.sort_order = "Desc" THEN sorted[Len(src) + 1 - i]
                       ELSE sorted[i]]
    IN  [i \in 1..IterationCount |-> ordered[SkipCount + i]]

\* The output of the bodies [<id>] run on the elements in order.
RECURSIVE Bodies(_)
Bodies(elems) ==
    IF elems = <<>> THEN ""
    ELSE "[" \o Head(elems).o[1][2].s \o "]" \o Bodies(Tail(elems))

\* The loop processes the for token.
ForRuns == Fetch /\ Executes /\ token.t = "function" /\ token.f = "for"

\* C6: the elements a for block iterates are, in order,
\* take(limit, drop(skip, ord(sort(source)))), the sort being stable by the
\* string key and desc reversing the whole sequence after the sort; the
\* bodies come out in that order, and [{n:a},{n:b}] sorted desc gives b, a.
C6_IteratesSortedOrderedWindow ==
    [][IsForRender =>
          /\ (ForRuns => Len(calls') = 1 /\ calls'[1].rest = ExpectedElements)
          /\ (result' = "ok" =>
                 output' = Some("<r>" \o Bodies(ExpectedElements) \o "</r>"))
          /\ (/\ result' = "ok" /\ ForToken.sort_variable # None
              /\ ForToken.sort_order = "Desc" /\ ForToken.skip = None /\ ForToken.limit = None
              /\ ForSourceList = <<Element("q", JString("a")), Element("p", JString("b"))>>
              => output' = Some("<r>[p][q]</r>"))]_vars

C6_Witness ==
    /\ IsForRender /\ result = "ok"
    /\ ForToken.sort_variable # None /\ ForToken.sort_order = "Desc"
    /\ ForToken.skip = Some(1) /\ ForToken.limit = Some(1)
    /\ Len(ForSourceList) = 3
    /\ KeyOf(ForSourceList[1]) = "" /\ KeyOf(ForSourceList[2]) = ""

(***************************************************************************)
(* Variables.                                                              *)
(***************************************************************************)
\* The frames of the stack that bind the name.
Binders(stk, name) ==
    {i \in 1..Len(stk) : \E j \in DOMAIN stk[i].variables : stk[i].variables[j][1] = name}

Topmost(S) == CHOOSE i \in S : \A j \in S : j <= i

\* The value of a dotted name in the topmost frame that binds its head.
TopmostValue(stk, name) ==
    LET head == Split(name)[1]
    IN  get_value(Tail(Split(name)), FrameGetVariable(stk[Topmost(Binders(stk, head))], head)[1])

\* The loop processes a variable token / an ifdefined token.
VariableRuns == Fetch /\ Executes /\ token.t = "variable"
IfDefinedRuns == Fetch /\ Executes /\ token.t = "function" /\ token.f = "ifdefined"

\* C9: a variable reference is resolved against the topmost frame that binds
\* its head name and no other: a string there is appended, null there is
\* NullError, any other value InvalidDataType, whatever lower frames bind;
\* UndefinedVariable only when no frame binds the head name.
C9_TopmostBindingDecides ==
    [][/\ VariableRuns =>
            IF Binders(stack, Split(token.text)[1]) = {}
            THEN result' = "UndefinedVariable" /\ stack' = stack
            ELSE LET value == TopmostValue(stack, token.text)
                 IN  CASE value.k = "string" ->
                            result' = result /\ stack' = AppendOutput(stack, value.s)
                       [] value.k = "null" -> result' = "NullError" /\ stack' = stack
                       [] OTHER -> result' = "InvalidDataType" /\ stack' = stack
       /\ IfDefinedRuns =>
            Last(calls').condition =
                (/\ Binders(stack, Split(token.text)[1]) # {}
                 /\ TopmostValue(stack, token.text).k # "null")]_vars

\* A reference to x.id fails on the loop variable (bound to a value with no
\* string there) although a lower frame binds x to an object whose id is a string.
C9_Witness ==
    /\ result \in {"NullError", "InvalidDataType"}
    /\ index > 0 /\ tokens[index] = Variable("x.id")
    /\ Cardinality(Binders(stack, "x")) = 2
    /\ get_value(<<"id">>, FrameGetVariable(stack[2], "x")[1]).k = "string"

(***************************************************************************)
(* ifdefined blocks.                                                       *)
(***************************************************************************)
IsIfDefinedRender ==
    /\ node.kind = "html" /\ Len(node.tokens) = 6
    /\ node.tokens[3].t = "function" /\ node.tokens[3].f = "ifdefined"

\* Whether the name of the ifdefined token denotes a non-null value: $a is
\* bound to the value of a.json, no other name is bound.
DenotesNonNull ==
    LET name == node.tokens[3].text
        a == input[1].json
    IN  CASE name = "a" -> a.k # "null"
          [] name = "a.k" ->
                a.k = "object" /\ \E i \in DOMAIN a.o : a.o[i][1] = "k" /\ a.o[i][2].k # "null"
          [] OTHER -> FALSE

\* C10: ifdefined($v) X end(ifdefined) emits X exactly when $v resolves to a
\* non-null value and nothing when it is unbound or null; the stack is as
\* high after end(ifdefined) as before the ifdefined token; no error is raised.
C10_IfDefinedEmitsIffNonNull ==
    IsIfDefinedRender =>
        /\ result \in {"running", "ok"}
        /\ (phase = "file" /\ index = 2 => Len(stack) = 2)
        /\ (phase = "file" /\ index = 5 =>
               /\ Len(stack) = 2
               /\ Last(stack).output = IF DenotesNonNull THEN "X" ELSE "")
        /\ (Finished => output = Some(IF DenotesNonNull THEN "<r>X</r>" ELSE "<r></r>"))

C10_Witness ==
    /\ IsIfDefinedRender /\ Finished /\ output = Some("<r></r>")
    /\ node.tokens[3].text = "a.k" /\ input[1].json.k = "object"

(***************************************************************************)
(* begin / end / else / import.                                            *)
(***************************************************************************)
\* C11: in every render that returns success each executed begin(label) is
\* closed by one executed end(label) popping the frame it pushed: a render
\* returns success only with no begin frame on the stack.
C11_NoBeginFrameLeftOpen ==
    [][result' = "ok" => \A i \in DOMAIN stack : stack[i].name[1] # "begin"]_vars

\* The loop processes an end token / an else token / an import token.
EndRuns == Fetch /\ Executes /\ IsEnd(token)
ElseRuns == Fetch /\ Executes /\ token.t = "function" /\ token.f = "else"
ImportRuns == Fetch /\ Executes /\ token.t = "function" /\ token.f = "import"

\* The top frame is not the one the end token names.
EndMisplaced ==
    LET name == Last(stack).name
    IN  IF token.custom THEN name # <<"begin", token.label>>
        ELSE name[1] # token.label \/ Len(name) < 2

\* The frames left on the stack are the frames that were there, as they were.
FramesUntouched == \A i \in DOMAIN stack' : i \in DOMAIN stack /\ stack'[i] = stack[i]

\* C13: end("x") on a top frame not named begin:x (the base frame, a for or
\* if* frame) and end(ident) on a top frame whose name does not start with
\* "ident:" fail with EndWithoutBegin, append nothing to the output of any
\* frame and record no section.
C13_MisplacedEndFails ==
    [][EndRuns /\ EndMisplaced =>
          /\ result' = "EndWithoutBegin"
          /\ FramesUntouched
          /\ sections' = sections
          /\ output' = output]_vars

\* end("s") met the frame of a for block that holds output.
C13_Witness ==
    /\ result = "EndWithoutBegin" /\ index = 3
    /\ node.kind = "html"
    /\ node.tokens = <<For("a", "data.json", "JSONFile", None, None, None, "Asc"),
                       Raw("A"), End("s")>>

\* C14: else() on a top frame whose name does not begin with "if" (base, for:,
\* begin:) fails with ElseWithoutIf and changes neither the stack nor any
\* output; an else() at the top level of a file always fails.
C14_ElseOutsideIfFails ==
    [][/\ ElseRuns /\ Last(stack).name[1] \in {"base", "for", "begin"} =>
            /\ result' = "ElseWithoutIf"
            /\ stack' = stack /\ sections' = sections /\ output' = output
       /\ ElseRuns /\ Len(stack) = 1 => result' = "ElseWithoutIf"]_vars

C14_Witness ==
    /\ result = "ElseWithoutIf" /\ index > 0 /\ tokens[index] = Else
    /\ Len(stack) = 2 /\ Last(stack).name[1] = "for" /\ Last(stack).output = "A"

\* The names bound in a frame are pairwise distinct.
DistinctNames(frame) ==
    \A i, j \in DOMAIN frame.variables :
        frame.variables[i][1] = frame.variables[j][1] => i = j

\* The name is bound in the frame.
Binds(frame, name) == \E i \in DOMAIN frame.variables : frame.variables[i][1] = name

\* The import token names a JSON file of the input tree.
ImportsJson ==
    \E i \in DOMAIN input :
        input[i].name = token.source /\ ~input[i].is_dir /\ input[i].parsed = "Json"

IsLayout(c, name) == c.name = name /\ ~c.is_dir /\ c.parsed = "Html"

\* The layout of the directory the walk is in: the tokens of the file `name`
\* that is a direct child of the nearest directory, from the current one up
\* to the content directory, that has such a child.
NearestLayout(name) ==
    LET having == {j \in DOMAIN walk :
                      \E i \in DOMAIN walk[j].dir.children :
                          IsLayout(walk[j].dir.children[i], name)}
    IN  IF having = {} THEN None
        ELSE LET d == walk[Topmost(having)].dir
             IN  Some(d.children[CHOOSE i \in DOMAIN d.children :
                                     IsLayout(d.children[i], name)].tokens)

\* build_node is about to process a file.
FileIsBuilt == Building /\ Current.at <= Len(Current.dir.children) /\ ~Child.is_dir

\* C12: every leaf is rendered with the root.html (md.html) that is a direct
\* child with Html contents of the nearest ancestor directory having one; a
\* directory without one inherits its parent's layout.
C12_NearestLayoutIsUsed ==
    [][FileIsBuilt =>
          /\ Current.env.root = NearestLayout("root.html")
          /\ Current.env.md = NearestLayout("md.html")]_vars


(***************************************************************************)
(* The tokenizer.                                                          *)
(***************************************************************************)

\* Every "{{" of the text is written escaped, with a backslash before it.
AllEscaped(text) ==
    \A i \in 1..(Len(text) - 1) :
        (text[i] = "{" /\ text[i + 1] = "{") => (i > 1 /\ text[i - 1] = "\\")

\* The places of the backslashes that escape a "{{".
Escapes(text) ==
    {i \in 1..(Len(text) - 2) : text[i] = "\\" /\ text[i + 1] = "{" /\ text[i + 2] = "{"}

RECURSIVE Without(_, _, _)
\* The characters of the text from place i on, those at the places in drop left out.
Without(text, drop, i) ==
    IF i > Len(text) THEN <<>>
    ELSE (IF i \in drop THEN <<>> ELSE <<text[i]>>) \o Without(text, drop, i + 1)

ParseReturned == scan.pc = "done" /\ html # <<>>

RECURSIVE UniqueChildren(_)
\* Every directory of the tree holds pairwise distinct child names.
UniqueChildren(n) ==
    /\ \A i, j \in DOMAIN n.children : n.children[i].name = n.children[j].name => i = j
    /\ \A i \in DOMAIN n.children : UniqueChildren(n.children[i])

\* The trees read from the file system hold pairwise distinct child names.
InputsUnique ==
    /\ contentTree # None => UniqueChildren(contentTree[1])
    /\ other # None => UniqueChildren(other[1])

\* C17: the tree Stuart::build produces from a tree with pairwise distinct
\* child names, and every tree Node::merge makes of it and of another such
\* tree, is a directory whose directories all hold pairwise distinct child names.
C17_ChildNamesStayDistinct ==
    (InputsUnique /\ built # None) => (built[1].is_dir /\ UniqueChildren(built[1]))

RECURSIVE Entries(_, _)
\* The descendants of a directory: [path, is_dir, source, contents], the path
\* counted from the directory.
Entries(n, at) ==
    UNION {{[path |-> Join(at, n.children[i].name), is_dir |-> n.children[i].is_dir,
             source |-> n.children[i].source, contents |-> n.children[i].contents]}
           \cup Entries(n.children[i], Join(at, n.children[i].name)) : i \in DOMAIN n.children}

\* The pairs at the same path in the two trees that are not two directories.
ClashPairs(a, b) ==
    {pair \in Entries(a, "") \X Entries(b, "") :
        pair[1].path = pair[2].path /\ ~(pair[1].is_dir /\ pair[2].is_dir)}

\* The files of a tree, and the paths of its directories.
Files(n) == {e \in Entries(n, "") : ~e.is_dir}
Directories(n) == {e.path : e \in {d \in Entries(n, "") : d.is_dir}}

Named(children, name) == \E i \in DOMAIN children : children[i].name = name

RECURSIVE MergedInPlace(_, _, _)
\* `after` is `before` with the children of `with` merged in: the children of
\* `before` stay where they are, a directory among them that `with` holds as a
\* directory is merged in place, and the children `with` alone holds follow
\* in their order.
MergedInPlace(before, with, after) ==
    LET n == Len(before.children)
        absent(c) == ~Named(before.children, c.name)
    IN  /\ Len(after.children) >= n
        /\ SubSeq(after.children, n + 1, Len(after.children)) = SelectSeq(with.children, absent)
        /\ \A i \in 1..n :
            LET child == before.children[i] IN
            IF Named(with.children, child.name)
            THEN \E j \in DOMAIN with.children :
                    /\ with.children[j].name = child.name
                    /\ after.children[i].name = child.name
                    /\ after.children[i].is_dir
                    /\ MergedInPlace(child, with.children[j], after.children[i])
            ELSE after.children[i] = child

MergeRuns == Merging /\ other # None

\* C18: Node::merge returns Conflict exactly when some path is held by both
\* trees and not as a directory in both, and the error carries the sources of
\* such a pair; otherwise it succeeds, every directory held by both is merged,
\* the children only `other` holds are appended after the existing ones, and
\* the result holds every file and directory of both trees at its path.
C18_MergeMatchesByName ==
    [][MergeRuns =>
        IF ClashPairs(built[1], other[1]) # {}
        THEN /\ step' = "failed"
             /\ Len(failure') = 3
             /\ failure'[1] = "Conflict"
             /\ \E pair \in ClashPairs(built[1], other[1]) :
                    failure'[2] = pair[1].source /\ failure'[3] = pair[2].source
        ELSE /\ step' # "failed"
             /\ failure' = None
             /\ MergedInPlace(built[1], other[1], built'[1])
             /\ Files(built'[1]) = Files(built[1]) \cup Files(other[1])
             /\ Directories(built'[1]) = Directories(built[1]) \cup Directories(other[1])]_vars

C18_Witness ==
    /\ step = "failed"
    /\ failure = <<"Conflict", "content/sub/p.html", "static/sub/p.html">>

(***************************************************************************)
(* Saving.                                                                 *)
(***************************************************************************)

\* save_recur is about to run on a file.
SavesFile == step = "saving" /\ saving # <<>> /\ ~Head(saving)[2].is_dir

\* The step writes the file at the path.
WritesTo(path) == \E e \in disk' \ disk : e.path = path /\ ~e.is_dir

\* The step writes the contents of the node at the path, unless the write fails.
WritesAt(n, path) ==
    step' # "failed" =>
        /\ WritesTo(path)
        /\ [path |-> path, is_dir |-> FALSE, contents |-> n.contents] \in disk'

\* The file is one that save_recur leaves out by its name.
LeftOut(n) ==
    \/ n.name \in {"root.html", "md.html"}
    \/ Extension(n.name) = "json" /\ ~config.save_data_files

\* The file is named X.html, X not "index", and is not left out.
OwnDirectoryName(n) ==
    Extension(n.name) = "html" /\ n.name \notin {"index.html", "root.html", "md.html"}

\* C19 as claimed: with strip_extensions, every X.html but index.html goes to
\* X/index.html and never to X.html, index.html stays index.html, and
\* root.html, md.html and (without save_data_files) .json files are not written.
C19_EveryHtmlGetsOwnDirectory ==
    [][SavesFile =>
        LET dir == Head(saving)[1]
            n == Head(saving)[2]
        IN  /\ LeftOut(n) => disk' = disk
            /\ (config.strip_extensions /\ OwnDirectoryName(n)) =>
                    /\ ~WritesTo(Join(dir, n.name))
                    /\ WritesAt(n, Join(Join(dir, Stem(n.name)), "index.html"))
            /\ (config.strip_extensions /\ n.name = "index.html") =>
                    /\ ~WritesTo(Join(Join(dir, "index"), "index.html"))
                    /\ WritesAt(n, Join(dir, "index.html"))]_vars

\* C19: the same for the files whose parsed contents are not Ignored; a file
\* read without parsing (static and temp trees) is written under its own name.
C19_ParsedHtmlGetsOwnDirectory ==
    [][SavesFile =>
        LET dir == Head(saving)[1]
            n == Head(saving)[2]
        IN  /\ LeftOut(n) => disk' = disk
            /\ (config.strip_extensions /\ OwnDirectoryName(n) /\ n.parsed # "Ignored") =>
                    /\ ~WritesTo(Join(dir, n.name))
                    /\ WritesAt(n, Join(Join(dir, Stem(n.name)), "index.html"))
            /\ (config.strip_extensions /\ OwnDirectoryName(n) /\ n.parsed = "Ignored") =>
                    /\ ~WritesTo(Join(Join(dir, Stem(n.name)), "index.html"))
                    /\ WritesAt(n, Join(dir, n.name))
            /\ (config.strip_extensions /\ n.name = "index.html") =>
                    /\ ~WritesTo(Join(Join(dir, "index"), "index.html"))
                    /\ WritesAt(n, Join(dir, "index.html"))]_vars

C19_Witness ==
    /\ config.strip_extensions
    /\ step = "saving"
    /\ [path |-> "p/index.html", is_dir |-> FALSE, contents |-> "<root0>content/p.html"] \in disk
    /\ [path |-> "s.html", is_dir |-> FALSE, contents |-> "static/s.html"] \in disk
    /\ \A e \in disk : e.path \notin {"root.html", "md.html", "p.html", "s/index.html"}

(***************************************************************************)
(* The run of a build.                                                     *)
(***************************************************************************)

\* The place of a step in StuartContext::build.
Rank(s) ==
    CASE s = "pre_build" -> 1
      [] s = "build" -> 2
      [] s = "walk" -> 3
      [] s = "merge_static" -> 4
      [] s = "merge_temp" -> 5
      [] s = "save" -> 6
      [] s = "saving" -> 7
      [] s = "post_build" -> 8
      [] s = "done" -> 9
      [] OTHER -> 0

BeforeSave == Rank(step) \in 1..5

\* The errors of the renders and of the merges.
RenderOrMergeFailed ==
    /\ step = "failed"
    /\ failure[1] \in {"NotFound", "MissingHtmlRoot", "MissingMarkdownRoot", "Conflict"}

\* C20: the steps of StuartContext::build follow one another in the order
\* pre-build scripts, Stuart::build, merge of static and temp, save, post-build
\* scripts; a step is left only for the next one or for the failure of the
\* run; the output directory changes only within save, which is reached with
\* no error and with a built tree; a run whose render or merge failed has
\* left the output directory as it was.
C20_SaveOnlyAfterSuccess ==
    [][/\ step' # step => (step' = "failed" \/ Rank(step') = Rank(step) + 1)
       /\ step = "failed" => step' = "failed"
       /\ BeforeSave => (disk' = disk /\ disk \in {{}, {Stale}})
       /\ disk' # disk => (step \in {"save", "saving"} /\ failure = None /\ built # None)
       /\ step' = "save" => (failure' = None /\ built' # None)
       /\ RenderOrMergeFailed => disk \in {{}, {Stale}}]_vars

C20_Witness ==
    /\ RenderOrMergeFailed
    /\ failure[1] = "Conflict"
    /\ built # None
    /\ disk = {Stale}

\* extract_until returns None: the step that ends the call at the end of input.
ExtractUntilFails == scan.pc = "extract_until" /\ scan'.pc = "extract_remaining"

\* C28: when extract_until reaches the end of input it leaves the parser as it
\* was when the call began: the same characters are unread, and location()
\* and the position of the next character are those of the call's entry.
C28_FailedExtractRestoresParser ==
    [][ExtractUntilFails =>
        /\ parser'.chars = scan.old_chars
        /\ location(parser') = <<scan.line, scan.column>>]_vars

RECURSIVE FileNodes(_)
\* The file nodes of a tree.
FileNodes(n) ==
    UNION {IF n.children[i].is_dir THEN FileNodes(n.children[i]) ELSE {n.children[i]}
           : i \in DOMAIN n.children}

\* The output directory holds the contents of the file.
OnDisk(f) == \E e \in disk' : ~e.is_dir /\ e.contents = f.contents

\* C29: while a tree with pairwise distinct child names is saved, no file
\* written earlier in the save is replaced, and when the save returns every
\* file that save_recur writes is in the output directory.
C29_NoSavedFileOverwritten ==
    [][(step = "saving" /\ UniqueChildren(built[1])) =>
        /\ \A e \in disk : ~e.is_dir => e \in disk'
        /\ step' = "post_build" =>
              \A f \in FileNodes(built[1]) : Saved(f) => OnDisk(f)]_vars

(***************************************************************************)
(* The tree walk: failures.                                                *)
(***************************************************************************)

RECURSIVE LeavesFrom(_, _, _)
\* The leaves below the children from place i on, in depth-first child order,
\* each with the environment of its directory: <<leaf, environment>>.
LeavesFrom(children, e, i) ==
    IF i > Len(children) THEN <<>>
    ELSE LET child == children[i] IN
         (IF child.is_dir
          THEN LeavesFrom(child.children, update_from_children(e, child.children), 1)
          ELSE <<<<child, e>>>>)
         \o LeavesFrom(children, e, i + 1)

\* The leaves of the content tree as Stuart::build meets them.
Leaves ==
    LET t == contentTree[1]
        top == update_from_children(update_from_children(EmptyEnvironment, t.children),
                                    t.children)
    IN  LeavesFrom(t.children, top, 1)

Fails(l) == ProcessNode(l[1], l[2]).err # ""

\* The places of the leaves whose render fails.
Failing == {i \in DOMAIN Leaves : Fails(Leaves[i])}

\* The sources of the leaves that the walk has rendered.
Rendered ==
    UNION {UNION {IF walk[k].done[i].is_dir
                  THEN {f.source : f \in FileNodes(walk[k].done[i])}
                  ELSE {walk[k].done[i].source} : i \in DOMAIN walk[k].done}
           : k \in DOMAIN walk}

C23_EmptyForSkipsBody ==
    [][(IsForRender /\ IterationCount = 0) =>
          /\ (phase = "file" /\ index \in 2..5) =>
                (index' \notin 3..5 /\ stack' = stack /\ result' = "running")
          /\ result' # "running" => (result' = "ok" /\ output' = Some("<r></r>"))]_vars

\* The render is one of the files with a block inside a block; the outer
\* block's token is the third, its end the third from the end.
IsSuppressedRender ==
    /\ node.kind = "html" /\ Len(node.tokens) >= 8
    /\ node.tokens[2] = Raw("A")
    /\ node.tokens[3].t = "function" /\ node.tokens[3].f \in IfNames \cup {"ifdefined"}

\* The condition of the outer block is false: ifeq(1, 2), ifdefined($b).
OuterIsFalse ==
    node.tokens[3] \in {If("ifeq", InInteger(1), InInteger(2)), IfDefined("b")}

OuterEnd == Len(node.tokens) - 2

\* The cursor is inside the body of the outer block.
InOuterBody == phase = "file" /\ index \in 3..(OuterEnd - 2)

\* C22: when the outer block's condition is false no token of its body has
\* an effect, whatever complete block the body holds: the stack and the
\* result stay as they are up to the outer end, the outer end leaves the
\* stack at its height before the block, the token after it is the next one
\* executed, and the render ends well with A and B only.
C22_FalseBlockSuppressesBody ==
    [][(IsSuppressedRender /\ OuterIsFalse) =>
          /\ InOuterBody => (stack' = stack /\ result' = "running" /\ index' >= index)
          /\ (phase = "file" /\ index = OuterEnd - 1 /\ index' = OuterEnd) =>
                (Len(stack') = 2 /\ result' = "running")
          /\ result' # "running" => (result' = "ok" /\ output' = Some("<r>AB</r>"))]_vars

IsNestedForRender == node.kind = "html" /\ node.tokens = NestedForFile

OuterList == input[1].json.a
InnerList == input[2].json.a

RECURSIVE InnerBodies(_, _)
\* The inner bodies {{ $x }}{{ $y }} for one outer element, from inner place j on.
InnerBodies(x, j) ==
    IF j > Len(InnerList) THEN ""
    ELSE x.s \o InnerList[j].s \o InnerBodies(x, j + 1)

RECURSIVE OuterBodies(_)
\* The outer bodies ( ... ) from outer place i on.
OuterBodies(i) ==
    IF i > Len(OuterList) THEN ""
    ELSE "(" \o InnerBodies(OuterList[i], 1) \o ")" \o OuterBodies(i + 1)

\* C24: a for block inside a for block over m >= 1 and n >= 1 elements runs
\* the inner body m * n times in the order (outer, inner) with both variables
\* bound; the cursor goes back only to the first token of the body of the
\* loop that iterates, the inner loop from its own end(for); the outer loop
\* returns with the cursor past its end(for) and the stack at its height
\* before the block, and the render ends well.
C24_NestedForRunsInOrder ==
    [][IsNestedForRender =>
          /\ index' < index =>
                \/ (phase = "file" /\ Len(calls) = 2 /\ index = 7 /\ index' = 4)
                \/ (phase = "file" /\ Len(calls) = 1 /\ index = 9 /\ index' = 2)
                \/ (phase = "file" /\ phase' = "root")
          /\ (phase = "file" /\ Len(calls) = 1 /\ calls' = <<>>) =>
                (index = 9 /\ Len(stack) = 2)
          /\ result' # "running" =>
                (result' = "ok" /\ output' = Some("<r>" \o OuterBodies(1) \o ".</r>"))]_vars

C24_Witness ==
    /\ IsNestedForRender /\ result = "ok"
    /\ Len(OuterList) = 2 /\ Len(InnerList) = 3
    /\ output = Some("<r>(o1i1o1i2o1i3)(o2i1o2i2o2i3).</r>")

(***************************************************************************)
(* The two phases of a render.                                             *)
(***************************************************************************)

\* The render of A{{ import($a, "a.json") }}{{ begin("s") }}B{{ end("s") }}C.
IsPhaseRender == node.kind = "html" /\ node.tokens = PhaseFile

\* The expected end of that render under each layout: the section, and D
\* only where the layout tests a variable of the processor's base frame.
PhaseOutcome ==
    LET root == env.root[1] IN
    IF root[Len(root)] = Raw("</r>") THEN <<"ok", Some("<r>B</r>")>>
    ELSE IF root[3].t = "variable" THEN <<"UndefinedVariable", None>>
    ELSE IF root[3].text = "env" THEN <<"ok", Some("<r>BD")>>
    ELSE <<"ok", Some("<r>B")>>

\* C26: the layout phase starts on one frame, a copy of the processor's base
\* frame, with the section table of the file phase; no frame of the layout
\* phase binds a variable of the file phase (`a`, `self`), so the layout
\* cannot resolve it, and the bytes A and C written outside the section are
\* not in the output.
C26_OnlySectionsCarriedOver ==
    [][/\ (phase = "file" /\ phase' = "root") =>
            (stack' = <<base>> /\ sections' = sections /\ index' = 0)
       /\ phase = "root" =>
            \A i \in DOMAIN stack :
                FrameGetVariable(stack[i], "a") = None /\ FrameGetVariable(stack[i], "self") = None
       /\ (IsPhaseRender /\ result' # "running") =>
            (result' = PhaseOutcome[1] /\ output' = PhaseOutcome[2])]_vars

C26_Witness ==
    /\ IsPhaseRender
    /\ env.root[1][3] = IfDefined("a")
    /\ Len(sections) = 1 /\ sections[1] = <<"s", "B">>
    /\ result = "ok" /\ output = Some("<r>B")

(***************************************************************************)
(* Termination.                                                            *)
(***************************************************************************)

\* {{ begin("s") }}{{ for($x, "data.json") }}A{{ ifdefined($x) }}B: blocks the
\* file never closes, and the for block alone.
OpenFiles ==
    {<<Begin("s"), For("x", "data.json", "JSONFile", None, None, None, "Asc"), Raw("A"),
       IfDefined("x"), Raw("B")>>,
     <<For("x", "data.json", "JSONFile", None, None, None, "Asc"), Raw("A")>>,
     <<If("ifeq", InInteger(1), InInteger(2)), Raw("A"), Else>>}

\* The renders with loops and blocks, closed, nested and left open.
LoopSetups ==
    SuppressedSetups \cup NestedForSetups \cup PhaseSetups
    \cup {su \in SectionSetups :
            su.node.tokens \in {SectionThenInsert, RecordedTwice, OpenBlock}}
    \cup {su \in IfSetups : su.node.tokens[3].f = "ifeq" /\ su.input[1].json = JNumber(1)}
    \cup {Setup(HtmlNode(f), Some(RootInsert), None,
                <<JsonFile("data.json", JArray(Numbered("o", n)))>>) :
            f \in OpenFiles \cup {ForFile(None, None, None, "Asc")}, n \in 0..MaxLen}

LoopInit ==
    /\ \E su \in LoopSetups :
        /\ node = su.node
        /\ env = su.env
        /\ base = su.base
        /\ input = su.input
    /\ phase = "init"
    /\ tokens = <<>>
    /\ index = 0
    /\ stack = <<>>
    /\ sections = <<>>
    /\ calls = <<>>
    /\ result = "running"
    /\ output = None
    /\ SiteIdle
    /\ ParseIdle
    /\ ExcerptIdle
    /\ ServeIdle

\* A render is one thread that runs until it returns: a step that can be
\* taken is taken.
FairSpec == LoopInit /\ [][Next]_vars /\ WF_vars(Next)

\* A for call starts an iteration: it has a further element and rewinds.
StartsIteration ==
    /\ calls # <<>> /\ TopCall.kind = "for" /\ TopCall.rest # <<>>
    /\ index' = TopCall.waypoint
    /\ calls' = [calls EXCEPT ![Len(calls)].rest = Tail(@),
                              ![Len(calls)].stack_height = Len(stack)]

\* C27: every render returns, with Ok or with an error; within a phase the
\* cursor goes back only when a for call starts an iteration, which takes one
\* element off the sequence the call fixed at its entry; a function whose
\* frame is still on the stack when the tokens run out returns
\* UnexpectedEndOfFile.
C27_RenderTerminates ==
    /\ <>(result # "running")
    /\ [][/\ (index' < index /\ phase' = phase) => StartsIteration
          /\ (calls # <<>> /\ Len(calls') >= Len(calls)) =>
                \A i \in DOMAIN calls :
                    \/ calls'[i].rest = calls[i].rest
                    \/ (i = Len(calls) /\ calls'[i].rest = Tail(calls[i].rest))
          /\ (Running /\ calls # <<>> /\ LoopOpen /\ index >= Len(tokens)) =>
                result' = "UnexpectedEndOfFile"]_vars

C27_Witness ==
    /\ result = "UnexpectedEndOfFile"
    /\ Len(calls) = 2 /\ calls[1].kind = "for" /\ calls[1].rest # <<>>
    /\ index = Len(tokens)

(***************************************************************************)
(* excerpt($var, N): ExcerptFunction::execute on an ASCII string, where    *)
(* String::len and the number of characters agree.                         *)
(***************************************************************************)
\* excerpt.push_str("..."): the three characters appended after a cut.
Ellipsis == <<".", ".", ".">>

\* One turn of `while excerpt.len() < self.length` with chars.next() = Some(ch).
ExcerptRead ==
    /\ reached = "while"
    /\ Len(excerpt) < length
    /\ unread # <<>>
    /\ LET ch == Head(unread) IN
        /\ unread' = Tail(unread)
        /\ IF ch = "<" THEN tag' = TRUE /\ UNCHANGED excerpt
           ELSE IF ch = ">" THEN tag' = FALSE /\ UNCHANGED excerpt
           ELSE IF ~tag THEN excerpt' = Append(excerpt, ch) /\ UNCHANGED tag
           ELSE UNCHANGED <<excerpt, tag>>
        /\ total_chars' = total_chars + 1
    /\ UNCHANGED <<string, length, reached, renderVars, siteVars, parseVars, serveVars>>

\* chars.next() = None: break.
ExcerptBreak ==
    /\ reached = "while"
    /\ Len(excerpt) < length
    /\ unread = <<>>
    /\ reached' = "after"
    /\ UNCHANGED <<string, length, unread, excerpt, tag, total_chars,
                   renderVars, siteVars, parseVars, serveVars>>

\* The condition of the while is false: the loop is left.
ExcerptFull ==
    /\ reached = "while"
    /\ ~(Len(excerpt) < length)
    /\ reached' = "after"
    /\ UNCHANGED <<string, length, unread, excerpt, tag, total_chars,
                   renderVars, siteVars, parseVars, serveVars>>

\* The output without the test of total_chars: no ellipsis is ever appended.
ExcerptOutputAsBuilt ==
    /\ reached = "after"
    /\ reached' = "output"
    /\ UNCHANGED <<string, length, unread, excerpt, tag, total_chars,
                   renderVars, siteVars, parseVars, serveVars>>

\* if total_chars < string.len() { push_str("...") }; scope.output(excerpt).
ExcerptOutput ==
    /\ reached = "after"
    /\ excerpt' = IF total_chars < Len(string) THEN excerpt \o Ellipsis ELSE excerpt
    /\ reached' = "output"
    /\ UNCHANGED <<string, length, unread, tag, total_chars,
                   renderVars, siteVars, parseVars, serveVars>>

ExcerptAlphabet == {"<", ">", "a", "b"}

ExcerptInit ==
    /\ RenderIdle
    /\ SiteIdle
    /\ ParseIdle
    /\ ServeIdle
    /\ string \in SeqsUpTo(ExcerptAlphabet, MaxLen)
    /\ length \in 0..MaxLen
    /\ unread = string
    /\ excerpt = <<>>
    /\ tag = FALSE
    /\ total_chars = 0
    /\ reached = "while"

ExcerptNext ==
    \/ ExcerptRead
    \/ ExcerptBreak
    \/ ExcerptFull
    \/ ExcerptOutput

ExcerptSpec == ExcerptInit /\ [][ExcerptNext]_vars

\* The text with every substring from a `<` to the next `>` left out (an
\* unclosed `<` opens a tag that runs to the end of the text).
RECURSIVE TagFree(_)
TagFree(s) ==
    IF s = <<>> THEN <<>>
    ELSE IF Head(s) = "<"
         THEN LET closes == {j \in 2..Len(s) : s[j] = ">"} IN
              IF closes = {} THEN <<>> ELSE TagFree(SubSeq(s, Min(closes) + 1, Len(s)))
         ELSE <<Head(s)>> \o TagFree(Tail(s))

\* An HTML text: every `>` closes a tag.
ClosesOnlyTags(s) == \A j \in 1..Len(s) : s[j] = ">" => \E h \in 1..(j - 1) :
    s[h] = "<" /\ \A m \in (h + 1)..(j - 1) : s[m] # ">"

\* How many characters are read until N are emitted: the shortest prefix whose
\* tag-free text has N characters, the whole text when there is none.
ReadUntil(s, n) ==
    Min({r \in 0..Len(s) : Len(TagFree(SubSeq(s, 1, r))) >= n} \cup {Len(s)})

MaxConnections == 3
MaxEvents == 2

Connections == 1..MaxConnections

restOfProgram == <<renderVars, siteVars, parseVars, excerptVars>>

\* Who holds the mutex of State::streams.
Unlocked == <<>>
ByWatcher == <<"watcher">>
ByHandler(c) == <<"handler", c>>

\* The Vec as a set of its elements.
Registered(v) == {v[j] : j \in DOMAIN v}

\* Vec::swap_remove with a valid index (counted from 0): the last element
\* takes the place of the removed one.
swap_remove(v, idx) ==
    [j \in 1..(Len(v) - 1) |-> IF j = idx + 1 THEN v[Len(v)] ELSE v[j]]

\* The indices in the order the second loop visits them, as they were pushed.
InPushOrder(indices) == indices

\* to_remove.iter().rev()
RemovalOrder(indices) == Reverse(indices)

\* humphrey_ws has finished the handshake and calls the closure.
Connect(c) ==
    /\ handlers[c] = "closed"
    /\ handlers' = [handlers EXCEPT ![c] = "waiting"]
    /\ UNCHANGED <<streams, holder, watcher, taken, sends, restOfProgram>>

\* state.streams.lock().unwrap() in the handler.
HandlerLock(c) ==
    /\ handlers[c] = "waiting"
    /\ holder = Unlocked
    /\ holder' = ByHandler(c)
    /\ handlers' = [handlers EXCEPT ![c] = "locked"]
    /\ UNCHANGED <<streams, watcher, taken, sends, restOfProgram>>

\* .push(stream), and the guard is dropped at the end of the statement.
HandlerPush(c) ==
    /\ handlers[c] = "locked"
    /\ streams' = Append(streams, c)
    /\ holder' = Unlocked
    /\ handlers' = [handlers EXCEPT ![c] = "pushed"]
    /\ UNCHANGED <<watcher, taken, sends, restOfProgram>>

\* rx.recv() gives an event: one under dist/ or temp/ or of stuart.toml is
\* passed over, for another ctx.build() runs and fails or succeeds.
WatcherRecv ==
    /\ watcher.pc = "recv"
    /\ watcher.events < MaxEvents
    /\ \E seen \in {"passed", "failed", "built"} :
        watcher' = [watcher EXCEPT !.events = @ + 1,
                                   !.pc = IF seen = "built" THEN "lock" ELSE "recv"]
    /\ UNCHANGED <<streams, holder, handlers, taken, sends, restOfProgram>>

\* let mut streams = streams.lock().unwrap(); let mut to_remove = Vec::...
WatcherLock ==
    /\ watcher.pc = "lock"
    /\ holder = Unlocked
    /\ holder' = ByWatcher
    /\ watcher' = [watcher EXCEPT !.pc = "send", !.i = 0, !.to_remove = <<>>, !.k = 0]
    /\ taken' = streams
    /\ sends' = [c \in Connections |-> <<>>]
    /\ UNCHANGED <<streams, handlers, restOfProgram>>

\* One turn of `for (i, stream) in streams.iter_mut().enumerate()`.
WatcherSend ==
    /\ watcher.pc = "send"
    /\ watcher.i < Len(streams)
    /\ \E sent \in BOOLEAN :
        /\ sends' = [sends EXCEPT ![streams[watcher.i + 1]] = Append(@, sent)]
        /\ watcher' = [watcher EXCEPT
                          !.i = @ + 1,
                          !.to_remove = IF sent THEN @ ELSE Append(@, watcher.i)]
    /\ UNCHANGED <<streams, holder, handlers, taken, restOfProgram>>

\* The first loop is over; the second starts.
WatcherSent ==
    /\ watcher.pc = "send"
    /\ watcher.i = Len(streams)
    /\ watcher' = [watcher EXCEPT !.pc = "remove", !.k = 0]
    /\ UNCHANGED <<streams, holder, handlers, taken, sends, restOfProgram>>

\* One turn of `for i in to_remove.iter().rev()`: swap_remove panics on an
\* index out of bounds, and the unwinding drops the guard.
WatcherRemove ==
    /\ watcher.pc = "remove"
    /\ watcher.k < Len(watcher.to_remove)
    /\ LET idx == RemovalOrder(watcher.to_remove)[watcher.k + 1] IN
        IF idx < Len(streams)
        THEN /\ streams' = swap_remove(streams, idx)
             /\ watcher' = [watcher EXCEPT !.k = @ + 1]
             /\ UNCHANGED holder
        ELSE /\ watcher' = [watcher EXCEPT !.pc = "panicked"]
             /\ holder' = Unlocked
             /\ UNCHANGED streams
    /\ UNCHANGED <<handlers, taken, sends, restOfProgram>>

\* The else block ends and the guard is dropped; `while rx.try_recv().is_ok() {}`.
WatcherUnlock ==
    /\ watcher.pc = "remove"
    /\ watcher.k = Len(watcher.to_remove)
    /\ holder' = Unlocked
    /\ watcher' = [watcher EXCEPT !.pc = "recv"]
    /\ UNCHANGED <<streams, handlers, taken, sends, restOfProgram>>

ServeInit ==
    /\ RenderIdle
    /\ SiteIdle
    /\ ParseIdle
    /\ ExcerptIdle
    /\ streams = <<>>
    /\ holder = Unlocked
    /\ watcher = [pc |-> "recv", events |-> 0, i |-> 0, to_remove |-> <<>>, k |-> 0]
    /\ handlers = [c \in Connections |-> "closed"]
    /\ taken = <<>>
    /\ sends = [c \in Connections |-> <<>>]

ServeNext ==
    \/ \E c \in Connections : Connect(c)
    \/ \E c \in Connections : HandlerLock(c)
    \/ \E c \in Connections : HandlerPush(c)
    \/ WatcherRecv
    \/ WatcherLock
    \/ WatcherSend
    \/ WatcherSent
    \/ WatcherRemove
    \/ WatcherUnlock

ServeSpec == ServeInit /\ [][ServeNext]_vars

\* The watcher gives the mutex back.
Releases == holder = ByWatcher /\ holder' = Unlocked

\* C30: after a successful rebuild the watcher sends `reload` exactly once to
\* every stream registered when it takes the lock, and when it releases the
\* lock the registry holds exactly the streams whose send succeeded, each
\* once, wherever and however many sends failed; a stream the handler
\* registers meanwhile is pushed once, after the release, and leaves the
\* registry only through a failed send.
C30_BroadcastKeepsExactlyTheReached ==
    [][/\ Releases =>
            /\ \A c \in Connections :
                  sends[c] \in (IF c \in Registered(taken) THEN {<<TRUE>>, <<FALSE>>} ELSE {<<>>})
            /\ Registered(streams') = {c \in Registered(taken) : sends[c] = <<TRUE>>}
            /\ Len(streams') = Cardinality(Registered(streams'))
       /\ holder = ByWatcher => \A c \in Connections : handlers'[c] = "pushed" <=> handlers[c] = "pushed"
       /\ \A c \in Connections :
            /\ (c \in Registered(streams) /\ c \notin Registered(streams')) =>
                    holder = ByWatcher /\ sends[c] = <<FALSE>>
            /\ (c \notin Registered(streams) /\ c \in Registered(streams')) =>
                    /\ handlers[c] = "locked" /\ handlers'[c] = "pushed"
                    /\ streams' = Append(streams, c)
            /\ (handlers[c] # "pushed" /\ handlers'[c] = "pushed") => c \in Registered(streams')
       /\ Len(streams') = Cardinality(Registered(streams'))]_vars

C30_Witness ==
    /\ holder = ByWatcher
    /\ watcher.pc = "remove"
    /\ watcher.k = 2
    /\ taken = <<1, 2, 3>>
    /\ sends = [c \in Connections |-> IF c = 2 THEN <<TRUE>> ELSE <<FALSE>>]
    /\ streams = <<2>>

====
